---- MODULE Spec2Model ----
(***************************************************************************)
(* Tire degradation modelling and race strategy simulation engine          *)
(* (backend/app/ml): PitStrategyOptimizer, TireDegradationModel and        *)
(* RaceSimulator.                                                          *)
(*                                                                         *)
(* Units.  Arguments are drawn as integers:                                *)
(*   baseline lap times   tenths of a second        (98.5 s  = 985)        *)
(*   degradation rates    hundredths of a percent   (0.2 %   = 20)         *)
(* and are converted to the double nearest to the decimal, as the literal  *)
(* 98.5 or 0.2 is in Python.  The pit window and the race simulator then   *)
(* compute in IEEE-754 binary64 arithmetic, every operation rounded to     *)
(* nearest-even, in the order the code performs them.  The undercut and    *)
(* the stint projection compute the same formulas exactly in units of      *)
(* 1e-5 seconds, "TU" (45 s = 4500000).                                    *)
(***************************************************************************)
EXTENDS Integers, Sequences, FiniteSets, TLC

VARIABLES
    call,            \* the last completed library call: [op, args, ret]
    model,           \* TireDegradationModel instance: self.model / self.poly_features
    degradation_df,  \* the DataFrame last returned by calculate_lap_degradation
    rng,             \* state of numpy's process-wide generator (np.random)
    sims,            \* the simulate_race calls in flight, one per worker
    sim_log          \* first result observed for each (strategy, seed) call

vars == <<call, model, degradation_df, rng, sims, sim_log>>

NoCall == [op |-> "none"]

\* TireDegradationModel.__init__: nothing fitted yet
Unfitted ==
    [model |-> "None", poly_features |-> "None", coef |-> <<>>,
     degradation_rate |-> <<>>, baseline_laptime |-> <<>>]

\* no DataFrame computed yet by the caller
NoDf == [computed |-> FALSE, rows |-> <<>>]

\* ------------------------------------------------------------------ bounds
MaxLap == 17
MaxTireAge == 13
MaxStfLap == 4
MaxStfTireAge == 2
MaxLapTimes == 6
MaxPredictAge == 2
SimRaceLaps == 3
MaxDraws == 9

\* ------------------------------------------------------------- arithmetic
Max(a, b) == IF a >= b THEN a ELSE b
Min(a, b) == IF a <= b THEN a ELSE b
Abs(a) == IF a >= 0 THEN a ELSE -a

\* Body of the value of an expression, for a local that is assigned once and
\* read several times
With(value, Body(_)) == Body(value)

\* TU per second: tenths of a second x hundredths of a percent x the formulas' / 100
TU == 10 * 100 * 100

\* ------------------------------------------------ IEEE 754 binary64 numbers
\* The floats of the code.  A double is [s, e, m]: the sign s (1 or -1, and 0
\* for zero), and for a nonzero value the 53-bit significand m (four limbs to
\* the base 2^14, least significant first, 2^52 <= m < 2^53) and the exponent
\* e of its last bit, the value being s * m * 2^e.  Every operation gives the
\* double nearest to the exact result, ties to the even significand.
Limb == 16384

\* TwoTo[b + 1] = 2^b for b in 0..14
TwoTo == <<1, 2, 4, 8, 16, 32, 64, 128, 256, 512, 1024, 2048, 4096, 8192, 16384>>

DblZero == [s |-> 0, e |-> 0, m |-> <<0, 0, 0, 0>>]

\* limb i of N, zero outside N
Digit(N, i) == IF i >= 1 /\ i <= Len(N) THEN N[i] ELSE 0

\* the number of bits of 0 <= v < 2^14
BitLen(v) == CHOOSE b \in 0..14 : (b = 0 \/ v >= TwoTo[b]) /\ v < TwoTo[b + 1]

\* floor(N / 2^n) and N * 2^n, in len limbs
ShiftRight(N, n, len) ==
    [i \in 1..len |->
        (Digit(N, i + n \div 14) \div TwoTo[(n % 14) + 1])
        + (Digit(N, i + n \div 14 + 1) % TwoTo[(n % 14) + 1]) * TwoTo[15 - (n % 14)]]

ShiftLeft(N, n, len) ==
    [i \in 1..len |->
        (Digit(N, i - n \div 14) % TwoTo[15 - (n % 14)]) * TwoTo[(n % 14) + 1]
        + (Digit(N, i - n \div 14 - 1) \div TwoTo[15 - (n % 14)])]

\* the eight limbs of the number whose limbs, carries and borrows not yet
\* passed on, are v
Carry(v) ==
    LET t1 == v[1]
        t2 == v[2] + t1 \div Limb
        t3 == v[3] + t2 \div Limb
        t4 == v[4] + t3 \div Limb
        t5 == v[5] + t4 \div Limb
        t6 == v[6] + t5 \div Limb
        t7 == v[7] + t6 \div Limb
        t8 == v[8] + t7 \div Limb
    IN  <<t1 % Limb, t2 % Limb, t3 % Limb, t4 % Limb, t5 % Limb, t6 % Limb, t7 % Limb, t8 % Limb>>

\* A < B for numbers of equally many limbs
LimbsLess(A, B) ==
    \E i \in 1..Len(A) : A[i] < B[i] /\ \A k \in (i + 1)..Len(A) : A[k] = B[k]

\* the double nearest to s * N * 2^e, ties to the even significand
DblRound(s, N, e) ==
    IF \A i \in 1..Len(N) : N[i] = 0 THEN DblZero
    ELSE LET top == CHOOSE i \in 1..Len(N) : N[i] # 0 /\ \A k \in (i + 1)..Len(N) : N[k] = 0
             shift == 14 * (top - 1) + BitLen(N[top]) - 53
         IN  IF shift <= 0
             THEN [s |-> s, e |-> e + shift, m |-> ShiftLeft(N, -shift, 4)]
             ELSE LET q == ShiftRight(N, shift, 4)
                      at == (shift - 1) \div 14 + 1
                      bit == TwoTo[((shift - 1) % 14) + 1]
                      up == /\ (N[at] \div bit) % 2 = 1
                            /\ \/ q[1] % 2 = 1
                               \/ N[at] % bit # 0
                               \/ \E j \in 1..(at - 1) : N[j] # 0
                  IN  IF ~up THEN [s |-> s, e |-> e + shift, m |-> q]
                      ELSE IF q = <<Limb - 1, Limb - 1, Limb - 1, 2047>>
                      THEN [s |-> s, e |-> e + shift + 1, m |-> <<0, 0, 0, 1024>>]
                      ELSE [s |-> s, e |-> e + shift,
                            m |-> [i \in 1..4 |->
                                      IF \A k \in 1..(i - 1) : q[k] = Limb - 1
                                      THEN (q[i] + 1) % Limb ELSE q[i]]]

\* float(n) for an integer |n| < 2^31
DblFromInt(n) ==
    DblRound(IF n < 0 THEN -1 ELSE 1,
             <<Abs(n) % Limb, (Abs(n) \div Limb) % Limb, Abs(n) \div (Limb * Limb)>>, 0)

DblNeg(x) == [x EXCEPT !.s = -x.s]

\* abs(x)
DblAbs(x) == [x EXCEPT !.s = IF x.s < 0 THEN 1 ELSE x.s]

\* x + y: the significand of the greater exponent is moved up to the unit of
\* the other's, and the limbs are added or subtracted
DblAdd(x, y) ==
    IF x.s = 0 THEN y
    ELSE IF y.s = 0 THEN x
    ELSE LET hi == IF x.e >= y.e THEN x ELSE y
             lo == IF x.e >= y.e THEN y ELSE x
             d == hi.e - lo.e
         IN  IF d > 55 THEN hi
             ELSE LET A == ShiftLeft(hi.m, d % 14, 5)
                      k == d \div 14
                  IN  IF hi.s = lo.s
                      THEN DblRound(hi.s, Carry([i \in 1..8 |-> Digit(A, i - k) + Digit(lo.m, i)]), lo.e)
                      ELSE IF d = 0 /\ LimbsLess(hi.m, lo.m)
                      THEN DblRound(lo.s, Carry([i \in 1..8 |-> Digit(lo.m, i) - Digit(hi.m, i)]), lo.e)
                      ELSE DblRound(hi.s, Carry([i \in 1..8 |-> Digit(A, i - k) - Digit(lo.m, i)]), lo.e)

DblSub(x, y) == DblAdd(x, DblNeg(y))

\* x * y: the limbs' products summed by columns
DblMul(x, y) ==
    IF x.s = 0 \/ y.s = 0 THEN DblZero
    ELSE LET a == x.m
             b == y.m
         IN  DblRound(x.s * y.s,
                      Carry(<<a[1] * b[1],
                              a[1] * b[2] + a[2] * b[1],
                              a[1] * b[3] + a[2] * b[2] + a[3] * b[1],
                              a[1] * b[4] + a[2] * b[3] + a[3] * b[2] + a[4] * b[1],
                              a[2] * b[4] + a[3] * b[3] + a[4] * b[2],
                              a[3] * b[4] + a[4] * b[3],
                              a[4] * b[4],
                              0>>),
                      x.e + y.e)

\* x / d for an integer 0 < d < 2^17: x * 2^28 divided limb by limb from the
\* top, a remainder kept as a bit below the quotient
DblDivInt(x, d) ==
    IF x.s = 0 THEN DblZero
    ELSE LET r4 == x.m[4] % d
             t3 == r4 * Limb + x.m[3]
             t2 == (t3 % d) * Limb + x.m[2]
             t1 == (t2 % d) * Limb + x.m[1]
             t0 == (t1 % d) * Limb
             tz == (t0 % d) * Limb
         IN  DblRound(x.s,
                      <<IF tz % d # 0 THEN 1 ELSE 0, tz \div d, t0 \div d, t1 \div d,
                        t2 \div d, t3 \div d, x.m[4] \div d>>,
                      x.e - 42)

\* x < y, x <= y
DblLess(x, y) ==
    IF x.s # y.s THEN x.s < y.s
    ELSE IF x.s = 0 THEN FALSE
    ELSE IF x.s = 1
         THEN x.e < y.e \/ (x.e = y.e /\ LimbsLess(x.m, y.m))
         ELSE y.e < x.e \/ (x.e = y.e /\ LimbsLess(y.m, x.m))

DblLeq(x, y) == ~DblLess(y, x)

\* python's max(x, y) and min(x, y): the first argument unless the second is
\* strictly greater, strictly smaller
DblMax(x, y) == IF DblLess(x, y) THEN y ELSE x
DblMin(x, y) == IF DblLess(y, x) THEN y ELSE x

\* the float written n / d in decimal: 0.2 is Dec(2, 10), 98.5 is Dec(985, 10)
Dec(n, d) == DblDivInt(DblFromInt(n), d)

\* acc + xs[from + 1] + ... + xs[to], added in that order; the first half of
\* the additions is evaluated to a value, then the second half from it
RECURSIVE DblSumFrom(_, _, _, _)
DblSumFrom(acc, xs, from, to) ==
    IF to <= from THEN acc
    ELSE IF to = from + 1 THEN DblAdd(acc, xs[to])
    ELSE LET half == DblSumFrom(acc, xs, from, (from + to) \div 2)
         IN  IF half.s = 2 THEN half ELSE DblSumFrom(half, xs, (from + to) \div 2, to)

\* the total a python loop accumulates from 0 over xs
DblSum(xs) == DblSumFrom(DblZero, xs, 0, Len(xs))

\* one step of the square root of n by pairs of bits: the root so far gains the
\* bit whose square still fits under the bits of n taken in so far
SqrtStep(st, pair) ==
    LET rem == [ShiftLeft(st.rem, 2, 8) EXCEPT ![1] = @ + pair]
        trial == [ShiftLeft(st.root, 2, 8) EXCEPT ![1] = @ + 1]
    IN  IF LimbsLess(rem, trial)
        THEN [root |-> ShiftLeft(st.root, 1, 8), rem |-> rem]
        ELSE [root |-> [ShiftLeft(st.root, 1, 8) EXCEPT ![1] = @ + 1],
              rem |-> Carry([i \in 1..8 |-> rem[i] - trial[i]])]

\* steps from + 1 .. to of the root of n < 2^32: its 16 pairs of bits from the
\* top, then pairs of zeros; the first half of the steps before the second
RECURSIVE SqrtSteps(_, _, _, _)
SqrtSteps(st, n, from, to) ==
    IF to <= from THEN st
    ELSE IF to = from + 1
    THEN SqrtStep(st, IF to <= 16 THEN (n \div (4 ^ (16 - to))) % 4 ELSE 0)
    ELSE LET half == SqrtSteps(st, n, from, (from + to) \div 2)
         IN  IF half.root = <<>> THEN half ELSE SqrtSteps(half, n, (from + to) \div 2, to)

\* sqrt(n) for an integer 0 <= n < 2^31: the root of n * 2^108 to the last
\* whole bit, a remainder kept as a bit below it
DblSqrtInt(n) ==
    LET end == SqrtSteps([root |-> <<0, 0, 0, 0, 0, 0, 0, 0>>,
                          rem |-> <<0, 0, 0, 0, 0, 0, 0, 0>>], n, 0, 70)
    IN  DblRound(1, <<IF end.rem = <<0, 0, 0, 0, 0, 0, 0, 0>> THEN 0 ELSE 1>>
                    \o SubSeq(end.root, 1, 7), -68)

\* x ** 1.5 for the integers x = 1, 2, ...: the values DblSqrtInt(x^3) gives,
\* written out to spare the root
Pow15Tabulated ==
    <<
        [s |-> 1, e |-> -52, m |-> <<0, 0, 0, 1024>>],
        [s |-> 1, e |-> -51, m |-> <<15309, 6652, 2534, 1448>>],
        [s |-> 1, e |-> -50, m |-> <<14720, 14600, 3522, 1330>>],
        [s |-> 1, e |-> -49, m |-> <<0, 0, 0, 1024>>],
        [s |-> 1, e |-> -49, m |-> <<12754, 2551, 1368, 1431>>],
        [s |-> 1, e |-> -49, m |-> <<12742, 14390, 3409, 1881>>],
        [s |-> 1, e |-> -48, m |-> <<6605, 4706, 4859, 1185>>],
        [s |-> 1, e |-> -48, m |-> <<15309, 6652, 2534, 1448>>],
        [s |-> 1, e |-> -48, m |-> <<0, 0, 0, 1728>>],
        [s |-> 1, e |-> -48, m |-> <<12839, 9795, 14052, 2023>>],
        [s |-> 1, e |-> -47, m |-> <<15476, 5880, 7404, 1167>>],
        [s |-> 1, e |-> -47, m |-> <<14720, 14600, 3522, 1330>>],
        [s |-> 1, e |-> -47, m |-> <<6422, 7740, 14898, 1499>>],
        [s |-> 1, e |-> -47, m |-> <<14176, 15596, 4300, 1676>>],
        [s |-> 1, e |-> -47, m |-> <<6636, 6377, 524, 1859>>],
        [s |-> 1, e |-> -46, m |-> <<0, 0, 0, 1024>>],
        [s |-> 1, e |-> -46, m |-> <<11223, 13419, 7941, 1121>>],
        [s |-> 1, e |-> -46, m |-> <<6773, 6637, 14426, 1221>>],
        [s |-> 1, e |-> -46, m |-> <<7319, 14556, 1724, 1325>>],
        [s |-> 1, e |-> -46, m |-> <<12754, 2551, 1368, 1431>>],
        [s |-> 1, e |-> -46, m |-> <<14351, 2990, 12213, 1539>>],
        [s |-> 1, e |-> -46, m |-> <<14117, 11087, 431, 1651>>],
        [s |-> 1, e |-> -46, m |-> <<5600, 9068, 14188, 1764>>],
        [s |-> 1, e |-> -46, m |-> <<12742, 14390, 3409, 1881>>],
        [s |-> 1, e |-> -46, m |-> <<0, 0, 0, 2000>>],
        [s |-> 1, e |-> -45, m |-> <<1784, 13563, 9765, 1060>>],
        [s |-> 1, e |-> -45, m |-> <<8324, 7199, 6044, 1122>>],
        [s |-> 1, e |-> -45, m |-> <<6605, 4706, 4859, 1185>>],
        [s |-> 1, e |-> -45, m |-> <<1413, 5348, 5869, 1249>>],
        [s |-> 1, e |-> -45, m |-> <<15158, 5196, 8751, 1314>>],
        [s |-> 1, e |-> -45, m |-> <<15285, 5365, 13198, 1380>>],
        [s |-> 1, e |-> -45, m |-> <<15309, 6652, 2534, 1448>>],
        [s |-> 1, e |-> -45, m |-> <<10104, 6583, 9249, 1516>>],
        [s |-> 1, e |-> -45, m |-> <<7644, 14907, 309, 1586>>],
        [s |-> 1, e |-> -45, m |-> <<7265, 5350, 8230, 1656>>],
        [s |-> 1, e |-> -45, m |-> <<0, 0, 0, 1728>>],
        [s |-> 1, e |-> -45, m |-> <<13986, 7597, 8154, 1800>>],
        [s |-> 1, e |-> -45, m |-> <<6026, 12181, 16086, 1873>>],
        [s |-> 1, e |-> -45, m |-> <<12752, 11930, 7198, 1948>>],
        [s |-> 1, e |-> -45, m |-> <<12839, 9795, 14052, 2023>>],
        [s |-> 1, e |-> -44, m |-> <<16220, 2473, 1841, 1050>>],
        [s |-> 1, e |-> -44, m |-> <<15378, 8867, 12524, 1088>>],
        [s |-> 1, e |-> -44, m |-> <<10349, 8495, 14408, 1127>>],
        [s |-> 1, e |-> -44, m |-> <<15476, 5880, 7404, 1167>>],
        [s |-> 1, e |-> -44, m |-> <<1033, 6249, 7810, 1207>>],
        [s |-> 1, e |-> -44, m |-> <<5529, 12740, 15543, 1247>>],
        [s |-> 1, e |-> -44, m |-> <<6301, 7453, 14140, 1288>>],
        [s |-> 1, e |-> -44, m |-> <<14720, 14600, 3522, 1330>>],
        [s |-> 1, e |-> -44, m |-> <<0, 0, 0, 1372>>],
        [s |-> 1, e |-> -44, m |-> <<102, 97, 3499, 1414>>],
        [s |-> 1, e |-> -44, m |-> <<4616, 5376, 13949, 1456>>],
        [s |-> 1, e |-> -44, m |-> <<6422, 7740, 14898, 1499>>],
        [s |-> 1, e |-> -44, m |-> <<2205, 15242, 6279, 1543>>],
        [s |-> 1, e |-> -44, m |-> <<3583, 1390, 4413, 1587>>],
        [s |-> 1, e |-> -44, m |-> <<6678, 2011, 9235, 1631>>],
        [s |-> 1, e |-> -44, m |-> <<14176, 15596, 4300, 1676>>],
        [s |-> 1, e |-> -44, m |-> <<4270, 2037, 5935, 1721>>],
        [s |-> 1, e |-> -44, m |-> <<14853, 12507, 14079, 1766>>],
        [s |-> 1, e |-> -44, m |-> <<13938, 8129, 12294, 1812>>],
        [s |-> 1, e |-> -44, m |-> <<6636, 6377, 524, 1859>>],
        [s |-> 1, e |-> -44, m |-> <<1780, 14555, 11483, 1905>>],
        [s |-> 1, e |-> -44, m |-> <<9369, 12483, 12352, 1952>>],
        [s |-> 1, e |-> -44, m |-> <<905, 774, 3080, 2000>>],
        [s |-> 1, e |-> -43, m |-> <<0, 0, 0, 1024>>],
        [s |-> 1, e |-> -43, m |-> <<444, 381, 1532, 1048>>],
        [s |-> 1, e |-> -43, m |-> <<11724, 6049, 6112, 1072>>],
        [s |-> 1, e |-> -43, m |-> <<5761, 14010, 13717, 1096>>],
        [s |-> 1, e |-> -43, m |-> <<11223, 13419, 7941, 1121>>],
        [s |-> 1, e |-> -43, m |-> <<14410, 1655, 5146, 1146>>],
        [s |-> 1, e |-> -43, m |-> <<8279, 403, 5309, 1171>>],
        [s |-> 1, e |-> -43, m |-> <<8826, 6217, 8409, 1196>>],
        [s |-> 1, e |-> -43, m |-> <<6773, 6637, 14426, 1221>>],
        [s |-> 1, e |-> -43, m |-> <<3978, 12698, 6955, 1247>>],
        [s |-> 1, e |-> -43, m |-> <<6530, 9534, 2361, 1273>>],
        [s |-> 1, e |-> -43, m |-> <<11303, 5298, 624, 1299>>],
        [s |-> 1, e |-> -43, m |-> <<7319, 14556, 1724, 1325>>],
        [s |-> 1, e |-> -43, m |-> <<14061, 8921, 5644, 1351>>],
        [s |-> 1, e |-> -43, m |-> <<15804, 15159, 12364, 1377>>],
        [s |-> 1, e |-> -43, m |-> <<12202, 305, 5484, 1404>>],
        [s |-> 1, e |-> -43, m |-> <<12754, 2551, 1368, 1431>>],
        [s |-> 1, e |-> -43, m |-> <<0, 0, 0, 1458>>],
        [s |-> 1, e |-> -43, m |-> <<1518, 8797, 1362, 1485>>],
        [s |-> 1, e |-> -43, m |-> <<1668, 1053, 5439, 1512>>],
        [s |-> 1, e |-> -43, m |-> <<14351, 2990, 12213, 1539>>],
        [s |-> 1, e |-> -43, m |-> <<15845, 12877, 5284, 1567>>],
        [s |-> 1, e |-> -43, m |-> <<10630, 884, 1022, 1595>>],
        [s |-> 1, e |-> -43, m |-> <<11952, 7251, 15793, 1622>>],
        [s |-> 1, e |-> -43, m |-> <<14117, 11087, 431, 1651>>],
        [s |-> 1, e |-> -43, m |-> <<1047, 12164, 4073, 1679>>],
        [s |-> 1, e |-> -43, m |-> <<3153, 14409, 10320, 1707>>],
        [s |-> 1, e |-> -43, m |-> <<1855, 9410, 2774, 1736>>],
        [s |-> 1, e |-> -43, m |-> <<5600, 9068, 14188, 1764>>],
        [s |-> 1, e |-> -43, m |-> <<15265, 12724, 11780, 1793>>],
        [s |-> 1, e |-> -43, m |-> <<6640, 7057, 11921, 1822>>],
        [s |-> 1, e |-> -43, m |-> <<8732, 15132, 14596, 1851>>],
        [s |-> 1, e |-> -43, m |-> <<12742, 14390, 3409, 1881>>]>>

\* x ** 1.5 for an integer x >= 0: libm's pow gives the double nearest to the
\* square root of x^3
Pow15(x) ==
    IF x = 0 THEN DblZero
    ELSE IF x <= Len(Pow15Tabulated) THEN Pow15Tabulated[x]
    ELSE DblSqrtInt(x * x * x)

\* ------------------------------------------------- 32-bit unsigned words
\* a word is the pair <<high 16 bits, low 16 bits>>
Half == 65536

RECURSIVE Xor16(_, _)
Xor16(a, b) ==
    IF a = 0 THEN b
    ELSE IF b = 0 THEN a
    ELSE ((a + b) % 2) + 2 * Xor16(a \div 2, b \div 2)

RECURSIVE And16(_, _)
And16(a, b) ==
    IF a = 0 \/ b = 0 THEN 0
    ELSE ((a % 2) * (b % 2)) + 2 * And16(a \div 2, b \div 2)

RECURSIVE Pow2(_)
Pow2(n) == IF n = 0 THEN 1 ELSE 2 * Pow2(n - 1)

WordXor(x, y) == <<Xor16(x[1], y[1]), Xor16(x[2], y[2])>>
WordAnd(x, y) == <<And16(x[1], y[1]), And16(x[2], y[2])>>

\* x >> n for 0 < n < 32
WordShr(x, n) ==
    IF n >= 16 THEN <<0, x[1] \div Pow2(n - 16)>>
    ELSE <<x[1] \div Pow2(n), (x[2] \div Pow2(n)) + (x[1] % Pow2(n)) * Pow2(16 - n)>>

\* (x << n) & 0xffffffff for 0 < n < 16
WordShl(x, n) ==
    <<((x[1] % Pow2(16 - n)) * Pow2(n)) + (x[2] \div Pow2(16 - n)),
      (x[2] % Pow2(16 - n)) * Pow2(n)>>

\* (x + n) & 0xffffffff for 0 <= n < 65536
WordAddSmall(x, n) ==
    LET lo == x[2] + n
    IN  <<(x[1] + lo \div Half) % Half, lo % Half>>

\* (1812433253 * x) & 0xffffffff; 1812433253 = 0x6C078965 = 27655 * 65536 + 35173
WordMulSeed(x) ==
    LET l0 == x[2] % 256
        l1 == x[2] \div 256
        t0 == l0 * 35173
        t1 == l1 * 35173
        s == (t0 % Half) + (t1 % 256) * 256
        carry == (t0 \div Half) + (t1 \div 256) + (s \div Half)
        cross == (x[1] % 256) * 35173 + ((x[1] \div 256) * 35173 % 256) * 256
                 + l0 * 27655 + ((l1 * 27655) % 256) * 256
    IN  <<(carry + cross) % Half, s % Half>>

\* ------------------------------------------------------ numpy's MT19937
\* (624 state words, the twist reaching 397 words ahead)

\* mt19937_seed (init_genrand): mt[0] = seed, then
\* mt[i] = 1812433253 * (mt[i-1] ^ (mt[i-1] >> 30)) + i
MtSeedWord(mt, i) ==
    LET prev == mt[i]
    IN  Append(mt, WordAddSmall(WordMulSeed(WordXor(prev, WordShr(prev, 30))), i))

\* the iterations from <= i < to of the loop: the first half of the range is
\* evaluated to a value, then the second half from it
RECURSIVE MtSeedFrom(_, _, _)
MtSeedFrom(mt, from, to) ==
    IF to <= from THEN mt
    ELSE IF to = from + 1 THEN MtSeedWord(mt, from)
    ELSE LET mid == (from + to) \div 2
             half == MtSeedFrom(mt, from, mid)
         IN  IF half = <<>> THEN half ELSE MtSeedFrom(half, mid, to)

\* the seed is reduced to 32 bits
MtSeed(seed) == MtSeedFrom(<<<<(seed \div Half) % Half, seed % Half>>>>, 1, 624)

\* mt19937_gen: the 624 words are regenerated in place, word kk (from 0) from
\* words kk, kk + 1 and kk + 397 (indices modulo 624)
MtTwistWord(mt, kk) ==
    LET cur == mt[kk + 1]
        nxt == mt[((kk + 1) % 624) + 1]
        far == mt[((kk + 397) % 624) + 1]
        y == <<(cur[1] \div 32768) * 32768 + (nxt[1] % 32768), nxt[2]>>
        mag == IF y[2] % 2 = 1 THEN <<39176, 45279>> ELSE <<0, 0>>
    IN  WordXor(WordXor(far, WordShr(y, 1)), mag)

\* the iterations from <= kk < to of the loop
RECURSIVE MtTwistFrom(_, _, _)
MtTwistFrom(mt, from, to) ==
    IF to <= from THEN mt
    ELSE IF to = from + 1 THEN [mt EXCEPT ![from + 1] = MtTwistWord(mt, from)]
    ELSE LET mid == (from + to) \div 2
             half == MtTwistFrom(mt, from, mid)
         IN  IF half = <<>> THEN half ELSE MtTwistFrom(half, mid, to)

MtTwist(mt) == MtTwistFrom(mt, 0, 624)

\* the tempering of one output word
MtTemper(w) ==
    LET y1 == WordXor(w, WordShr(w, 11))
        y2 == WordXor(y1, WordAnd(WordShl(y1, 7), <<40236, 22144>>))
        y3 == WordXor(y2, WordAnd(WordShl(y2, 15), <<61382, 0>>))
    IN  WordXor(y3, WordShr(y3, 18))

\* the words after the generator has been regenerated block + 1 times
RECURSIVE MtBlock(_, _)
MtBlock(seed, block) ==
    LET before == IF block = 0 THEN MtSeed(seed) ELSE MtBlock(seed, block - 1)
    IN  IF before = <<>> THEN before ELSE MtTwist(before)

\* the value of a word below 2^31
WordToInt(w) == w[1] * Half + w[2]

\* a * 2^26 + b for a < 2^27 and b < 2^26, in limbs
Numerator53(a, b) ==
    <<b % Limb, b \div Limb + (a % 4) * 4096, (a \div 4) % Limb, a \div Half>>

\* mt19937_next_double after np.random.seed(seed) and draws earlier doubles:
\* ((a >> 5) * 2^26 + (b >> 6)) / 2^53 for the next two outputs a and b, the
\* words 2 * draws and 2 * draws + 1 (from 0) given since the seeding; the
\* numerator, in limbs
MtNextDouble53(seed, draws) ==
    With(MtBlock(seed, (2 * draws) \div 624),
         LAMBDA words :
             Numerator53(WordToInt(WordShr(MtTemper(words[((2 * draws) % 624) + 1]), 5)),
                         WordToInt(WordShr(MtTemper(words[((2 * draws) % 624) + 2]), 6))))

\* the numerators MtNextDouble53(seed, 0), MtNextDouble53(seed, 1), ... of the
\* seeds the calls are driven with, written out to spare the regeneration
MtTabulated ==
    (0 :> <<
        <<4776, 6524, 15893, 1123>>, <<1843, 15746, 11596, 1464>>, <<2379, 11706, 7526, 1234>>,
        <<5621, 11662, 15085, 1115>>, <<1915, 2554, 10568, 867>>, <<7003, 1574, 12962, 1322>>,
        <<11497, 5314, 2926, 896>>, <<4855, 8424, 5752, 1826>>, <<13110, 9308, 9524, 1973>>,
        <<8459, 6052, 4722, 785>>, <<10536, 15614, 7419, 1621>>, <<16162, 10157, 2896, 1083>>,
        <<13869, 9800, 5820, 1163>>, <<9480, 7520, 10189, 1895>>, <<15969, 9573, 7894, 145>>,
        <<14942, 2654, 7222, 178>>, <<5199, 13796, 6672, 41>>, <<8315, 16208, 3365, 1705>>,
        <<14365, 12862, 10895, 1593>>, <<14375, 7659, 12859, 1781>>,
        <<14721, 10131, 3446, 2004>>, <<8690, 11472, 11087, 1636>>, <<14348, 14419, 1797, 945>>,
        <<11314, 2780, 8581, 1598>>, <<11654, 2951, 3703, 242>>, <<15615, 6479, 9146, 1310>>,
        <<1322, 2201, 9626, 293>>, <<4744, 15395, 11172, 1934>>, <<13067, 433, 12212, 1068>>,
        <<14210, 14227, 3729, 849>>, <<3559, 4859, 13269, 541>>, <<6829, 11210, 10331, 1585>>,
        <<16224, 4982, 3209, 934>>, <<13986, 4649, 2502, 1164>>, <<11166, 1327, 7889, 38>>,
        <<1118, 4709, 15032, 1264>>, <<10295, 5006, 9372, 1253>>, <<964, 13871, 7877, 1263>>,
        <<710, 11889, 13042, 1932>>, <<16304, 14130, 6028, 1396>>>>)
    @@
    (7 :> <<
        <<2963, 5027, 4577, 156>>, <<8359, 1306, 4484, 1597>>, <<13123, 12198, 14124, 897>>,
        <<1241, 1866, 10759, 1481>>, <<10162, 9453, 15114, 2002>>, <<13352, 1080, 13755, 1102>>,
        <<4933, 8547, 4828, 1026>>, <<12264, 14005, 9186, 147>>, <<2766, 8257, 12501, 549>>,
        <<11871, 6257, 12441, 1023>>, <<10006, 11750, 1032, 1391>>, <<1926, 13643, 942, 1646>>,
        <<8056, 5705, 2743, 780>>, <<940, 10954, 616, 135>>, <<13296, 15041, 2001, 590>>,
        <<12342, 2842, 13886, 1862>>, <<1722, 5513, 216, 437>>, <<5692, 11999, 15562, 925>>,
        <<8898, 1075, 1801, 1907>>, <<2033, 7171, 16279, 50>>, <<754, 13332, 15141, 1229>>,
        <<14788, 11678, 14175, 1945>>, <<15075, 4808, 10818, 471>>, <<15848, 11430, 5035, 1123>>,
        <<8679, 3840, 14662, 1861>>, <<6397, 1838, 11977, 272>>, <<8595, 13863, 15547, 1071>>,
        <<3581, 9656, 13752, 1536>>, <<16132, 4887, 2279, 1370>>, <<8870, 8603, 15693, 957>>,
        <<14430, 14264, 8698, 419>>, <<11950, 10705, 1450, 1005>>, <<5131, 12088, 10548, 762>>,
        <<8292, 9620, 11756, 977>>, <<9899, 1132, 5628, 749>>, <<14551, 5924, 918, 1716>>,
        <<10070, 8019, 3114, 1574>>, <<8961, 735, 1001, 643>>, <<9235, 12872, 12069, 1172>>,
        <<805, 342, 5709, 565>>>>)
    @@
    (42 :> <<
        <<10486, 15550, 952, 767>>, <<5716, 8943, 1030, 1947>>, <<10065, 15481, 2024, 1499>>,
        <<11440, 6540, 861, 1226>>, <<2145, 14114, 8620, 319>>, <<8147, 8601, 7811, 319>>,
        <<1367, 10073, 15650, 118>>, <<14261, 9558, 15216, 1773>>, <<2989, 12873, 1368, 1231>>,
        <<642, 2666, 2173, 1450>>, <<1012, 231, 2573, 42>>, <<5029, 2957, 6150, 1986>>,
        <<5110, 16132, 13803, 1704>>, <<3110, 4099, 14262, 434>>, <<1614, 8160, 6185, 372>>,
        <<3346, 2529, 10034, 375>>, <<5428, 10697, 1443, 623>>, <<15459, 28, 11488, 1074>>,
        <<7597, 12382, 10213, 884>>, <<7815, 6245, 7164, 596>>, <<13607, 5733, 1224, 1253>>,
        <<2335, 4287, 11197, 285>>, <<8234, 12180, 5115, 598>>, <<7068, 9145, 5063, 750>>,
        <<2030, 4467, 513, 934>>, <<14894, 6628, 661, 1608>>, <<9245, 5662, 15268, 408>>,
        <<5139, 8123, 2492, 1053>>, <<14103, 6007, 4342, 1213>>, <<5175, 3522, 2137, 95>>,
        <<8842, 6882, 4126, 1244>>, <<4013, 1845, 3824, 349>>, <<5460, 4150, 3697, 133>>,
        <<4233, 3859, 5203, 1943>>, <<3744, 6403, 10066, 1977>>, <<10911, 13866, 9793, 1655>>,
        <<6517, 65, 13910, 623>>, <<12142, 5041, 532, 200>>, <<3937, 9179, 5066, 1401>>,
        <<10606, 15086, 7082, 901>>, <<8950, 10690, 15307, 249>>, <<12556, 15700, 2003, 1014>>,
        <<1664, 4806, 7007, 70>>, <<12849, 9793, 4721, 1862>>, <<7192, 4842, 16079, 529>>,
        <<15734, 15381, 13854, 1356>>, <<7183, 1741, 6296, 638>>, <<11944, 851, 1627, 1065>>,
        <<4924, 14613, 10856, 1119>>, <<4247, 4224, 9534, 378>>, <<16358, 7545, 11621, 1985>>,
        <<3160, 10034, 7733, 1587>>, <<8771, 5714, 1537, 1924>>, <<9743, 7891, 9935, 1832>>,
        <<14845, 2978, 8178, 1224>>, <<8372, 5433, 16358, 1887>>, <<8823, 10528, 3811, 181>>,
        <<5523, 10325, 6109, 401>>, <<15738, 16224, 10247, 92>>, <<3451, 7555, 4530, 666>>,
        <<379, 11253, 181, 796>>, <<9485, 10402, 11842, 555>>, <<5452, 6499, 4168, 1697>>,
        <<11235, 3953, 10335, 730>>, <<6754, 14774, 5797, 575>>, <<8071, 13418, 7234, 1111>>,
        <<8786, 5309, 10040, 288>>, <<15292, 676, 14736, 1642>>, <<765, 8256, 11136, 152>>,
        <<4136, 9926, 2366, 2021>>, <<7122, 9809, 9130, 1581>>, <<2090, 13490, 15887, 406>>,
        <<10992, 8249, 5067, 11>>, <<7511, 814, 1065, 1670>>, <<10758, 11105, 10548, 1447>>,
        <<9158, 7332, 109, 1493>>, <<197, 6578, 9202, 1579>>, <<2103, 3794, 10542, 151>>,
        <<13295, 14954, 2257, 734>>, <<11056, 7843, 4912, 237>>, <<12419, 3481, 10417, 1767>>,
        <<15564, 10032, 8430, 1276>>, <<13104, 4486, 11127, 677>>, <<14279, 5614, 2744, 130>>,
        <<9400, 2739, 14611, 636>>, <<10124, 10919, 15981, 665>>, <<15658, 14709, 3824, 1494>>,
        <<4267, 13413, 11758, 1305>>, <<13976, 10490, 191, 1817>>, <<7675, 9760, 1575, 967>>,
        <<2174, 16268, 15220, 244>>, <<2474, 11669, 11883, 1460>>, <<3344, 2956, 1438, 1558>>,
        <<9735, 9158, 8121, 1149>>, <<14022, 13336, 15413, 1578>>, <<10092, 12453, 4806, 1011>>,
        <<14339, 2910, 9123, 1070>>, <<3421, 454, 9896, 875>>, <<8557, 5895, 956, 52>>,
        <<3962, 9018, 15755, 220>>, <<781, 7765, 6012, 64>>, <<1907, 14235, 6037, 1303>>,
        <<2895, 6403, 13124, 643>>, <<13662, 11040, 9056, 1041>>>>)
    @@
    (50 :> <<
        <<1623, 4625, 15469, 1012>>, <<10593, 304, 1871, 467>>, <<5023, 6594, 3450, 523>>,
        <<13153, 87, 11201, 811>>, <<6785, 12911, 12145, 772>>, <<7803, 3910, 16122, 2040>>,
        <<16052, 3295, 16185, 835>>, <<6003, 9192, 13744, 1580>>, <<133, 9524, 9488, 1557>>,
        <<6447, 9991, 14731, 634>>, <<1533, 4648, 11737, 709>>, <<16162, 10627, 6788, 720>>,
        <<12658, 12198, 15009, 297>>, <<15676, 362, 283, 1992>>, <<16088, 1203, 16342, 1861>>,
        <<2033, 9171, 12978, 1146>>, <<677, 6212, 3831, 642>>, <<4871, 12476, 551, 1819>>,
        <<690, 1084, 8612, 1381>>, <<15041, 2749, 15517, 800>>, <<13937, 3232, 11683, 1038>>,
        <<10839, 5588, 5963, 1073>>, <<9960, 464, 8944, 1900>>, <<2941, 12971, 2818, 1170>>>>)

\* numpy's process-wide generator: its state is named by the seed it was last
\* given and the number of doubles drawn since.  np.random.seed(seed) and the
\* state after one more draw
NpRandomSeed(seed) == [seed |-> seed, draws |-> 0]
NpRandomAdvance(state) == [state EXCEPT !.draws = @ + 1]

\* np.random.uniform(low, high) = low + (high - low) * double, the product
\* rounded before it is added; k is the numerator of the double the generator
\* gives next, k / 2^53
\* the default traffic_variance of RaceSimulator, 0.2 s
DefaultTrafficVariance == Dec(2, 10)

Uniform(low, high, k) == DblAdd(low, DblMul(DblSub(high, low), DblRound(1, k, -53)))

\* the draws of the tabulated states between -0.2 and 0.2, the default
\* traffic_variance, computed once
TrafficTabulated ==
    [seed \in DOMAIN MtTabulated |->
        [i \in 1..Len(MtTabulated[seed]) |->
            Uniform(DblNeg(DefaultTrafficVariance), DefaultTrafficVariance,
                    MtTabulated[seed][i])]]

NpRandomUniform(state, low, high) ==
    IF /\ state.seed \in DOMAIN MtTabulated
       /\ state.draws < Len(MtTabulated[state.seed])
    THEN IF low = DblNeg(DefaultTrafficVariance) /\ high = DefaultTrafficVariance
         THEN TrafficTabulated[state.seed][state.draws + 1]
         ELSE Uniform(low, high, MtTabulated[state.seed][state.draws + 1])
    ELSE With(MtNextDouble53(state.seed, state.draws), LAMBDA k : Uniform(low, high, k))

\* np.add.reduce over xs[from + 1 .. from + n]: fewer than 8 numbers are added
\* in order from 0; up to 128 are added in 8 lanes, a[j], a[j + 8], ..., the
\* lanes added in pairs and the numbers left over after them; more are split
\* into two parts, the first a multiple of 8 long
RECURSIVE NpPairwiseSum(_, _, _)
NpPairwiseSum(xs, from, n) ==
    IF n < 8 THEN DblSumFrom(DblZero, xs, from, from + n)
    ELSE IF n <= 128
    THEN LET r == [j \in 1..8 |->
                      DblSumFrom(xs[from + j],
                                 [k \in 1..(n \div 8) |-> xs[from + 8 * (k - 1) + j]],
                                 1, n \div 8)]
         IN  DblSumFrom(DblAdd(DblAdd(DblAdd(r[1], r[2]), DblAdd(r[3], r[4])),
                               DblAdd(DblAdd(r[5], r[6]), DblAdd(r[7], r[8]))),
                        xs, from + n - (n % 8), from + n)
    ELSE LET n2 == (n \div 2) - ((n \div 2) % 8)
         IN  DblAdd(NpPairwiseSum(xs, from, n2), NpPairwiseSum(xs, from + n2, n - n2))

\* np.mean of a nonempty list
NpMean(xs) == DblDivInt(NpPairwiseSum(xs, 0, Len(xs)), Len(xs))

\* =================================================== PitStrategyOptimizer
\* self.typical_pit_time = 45.0 s, in TU and as the float
typical_pit_time == 45 * TU
TypicalPitTime == DblFromInt(45)

\* a range that takes its upper end in
RangeInclusive(a, b) == [i \in 1..Max(b - a + 1, 0) |-> a + i - 1]

\* python range(a, b) as a sequence
Range(a, b) == [i \in 1..Max(b - a, 0) |-> a + i - 1]

\* the sum a python for-loop accumulates, in loop order
RECURSIVE SeqSum(_)
SeqSum(s) == IF s = <<>> THEN 0 ELSE Head(s) + SeqSum(Tail(s))

\* max(0, min(100, score))
ClampScore(score) == DblMax(DblZero, DblMin(DblFromInt(100), score))

\* degradation rates (hundredths of a percent per lap) and baselines (tenths of
\* a second) the calls are driven with
Rates == {0, 20, 150}
Baselines == {985, 1200}

\* avg_degradation_rate_per_lap is the slope of a fitted line and may be
\* negative (hundredths of a percent per lap)
SignedRates == {-150, -20, 0, 20}

\* baselines that are not lap times: zero and a negative value
NonPositiveBaselines == {0, -985}

\* the floats of the rates and baselines above
RateFloats == {Dec(r, 100) : r \in Rates \cup SignedRates}
BaselineFloats == {Dec(b, 10) : b \in Baselines \cup NonPositiveBaselines}

\* baseline_laptime * (degradation / 100) for degradation = degradation_rate * tire_age
LapLossAt(degradation_rate, baseline_laptime, tire_age) ==
    DblMul(baseline_laptime,
           DblDivInt(DblMul(degradation_rate, DblFromInt(tire_age)), 100))

\* baseline_laptime * (1 + degradation / 100) for degradation =
\* degradation_rate * tire_age: fresh_time and old_time
LapTimeAt(degradation_rate, baseline_laptime, tire_age) ==
    DblMul(baseline_laptime,
           DblAdd(DblFromInt(1),
                  DblDivInt(DblMul(degradation_rate, DblFromInt(tire_age)), 100)))

\* the two terms for the rates, baselines and tire ages of the calls driven
\* here, computed once
LapLossTabulated ==
    [r \in RateFloats, b \in BaselineFloats, age \in 0..(MaxLap + MaxTireAge) |->
        LapLossAt(r, b, age)]
LapTimeTabulated ==
    [r \in RateFloats, b \in BaselineFloats, age \in 0..(MaxLap + MaxTireAge) |->
        LapTimeAt(r, b, age)]

LapLoss(degradation_rate, baseline_laptime, tire_age) ==
    IF <<degradation_rate, baseline_laptime, tire_age>> \in DOMAIN LapLossTabulated
    THEN LapLossTabulated[degradation_rate, baseline_laptime, tire_age]
    ELSE LapLossAt(degradation_rate, baseline_laptime, tire_age)

LapTimeOnTires(degradation_rate, baseline_laptime, tire_age) ==
    IF <<degradation_rate, baseline_laptime, tire_age>> \in DOMAIN LapTimeTabulated
    THEN LapTimeTabulated[degradation_rate, baseline_laptime, tire_age]
    ELSE LapTimeAt(degradation_rate, baseline_laptime, tire_age)

\* _evaluate_pit_scenario; degradation_rate and baseline_laptime are floats
EvaluatePitScenario(current_lap, pit_lap, total_race_laps, current_tire_age, degradation_rate, baseline_laptime) ==
    With(LET laps == Range(pit_lap + 1, total_race_laps + 1)
         IN  DblSum([k \in 1..Len(laps) |->
                        DblSub(LapTimeOnTires(degradation_rate, baseline_laptime,
                                              current_tire_age + (laps[k] - current_lap)),
                               LapTimeOnTires(degradation_rate, baseline_laptime,
                                              laps[k] - pit_lap))]),
         LAMBDA time_gain_after_pit :
             With(LET laps == Range(current_lap + 1, pit_lap + 1)
                  IN  DblAdd(TypicalPitTime,
                             DblSum([k \in 1..Len(laps) |->
                                        LapLoss(degradation_rate, baseline_laptime,
                                                current_tire_age
                                                    + (laps[k] - current_lap))])),
                  LAMBDA total_time_loss :
                      With(DblSub(time_gain_after_pit, total_time_loss),
                           LAMBDA net_advantage :
                               [pit_lap |-> pit_lap,
                                time_in_pit |-> TypicalPitTime,
                                tire_age_at_pit |->
                                    current_tire_age + (pit_lap - current_lap),
                                total_time_loss |-> total_time_loss,
                                total_time_gain |-> time_gain_after_pit,
                                net_advantage |-> net_advantage,
                                recommendation_score |->
                                    ClampScore(DblAdd(DblFromInt(50),
                                                      DblDivInt(net_advantage, 5)))])))

\* _evaluate_no_pit_scenario; degradation_rate and baseline_laptime are floats
EvaluateNoPitScenario(current_lap, total_race_laps, current_tire_age, degradation_rate, baseline_laptime) ==
    LET remaining_laps == total_race_laps - current_lap
        LossLap(tire_age) ==
            IF tire_age > 15
            THEN DblMul(baseline_laptime,
                        DblDivInt(DblAdd(DblMul(degradation_rate, DblFromInt(tire_age)),
                                         DblMul(Pow15(tire_age - 15), Dec(2, 10))),
                                  100))
            ELSE LapLoss(degradation_rate, baseline_laptime, tire_age)
        laps == Range(current_lap + 1, total_race_laps + 1)
    IN  With(DblSum([k \in 1..Len(laps) |-> LossLap(current_tire_age + (laps[k] - current_lap))]),
             LAMBDA time_loss :
                 [pit_lap |-> 0,
                  time_in_pit |-> DblZero,
                  tire_age_at_pit |-> current_tire_age + remaining_laps,
                  total_time_loss |-> time_loss,
                  total_time_gain |-> DblZero,
                  net_advantage |-> DblNeg(time_loss),
                  recommendation_score |->
                      ClampScore(IF /\ remaining_laps <= 5
                                    /\ DblLess(DblMax(degradation_rate, DblNeg(degradation_rate)),
                                               Dec(5, 10))
                                 THEN DblSub(DblFromInt(60), DblDivInt(time_loss, 2))
                                 ELSE DblSub(DblFromInt(20), DblDivInt(time_loss, 3)))])

\* an insertion that puts a scenario before the scenarios of equal key
RECURSIVE InsertBeforeEqual(_, _)
InsertBeforeEqual(sorted, s) ==
    IF sorted = <<>> THEN <<s>>
    ELSE IF DblLess(s.net_advantage, Head(sorted).net_advantage)
         THEN <<Head(sorted)>> \o InsertBeforeEqual(Tail(sorted), s)
         ELSE <<s>> \o sorted

\* list.sort(key=net_advantage, reverse=True): a stable sort, equal keys keep
\* their original order
RECURSIVE InsertDesc(_, _)
InsertDesc(sorted, s) ==
    IF sorted = <<>> THEN <<s>>
    ELSE IF DblLeq(s.net_advantage, Head(sorted).net_advantage)
         THEN <<Head(sorted)>> \o InsertDesc(Tail(sorted), s)
         ELSE <<s>> \o sorted

RECURSIVE SortFrom(_, _)
SortFrom(scenarios, i) ==
    IF i = 0 THEN <<>> ELSE InsertDesc(SortFrom(scenarios, i - 1), scenarios[i])

\* a sort that leaves the list in evaluation order
UnsortedScenarios(scenarios) == scenarios

SortScenarios(scenarios) == SortFrom(scenarios, Len(scenarios))

\* an eligibility test that passes when either condition holds
NoPitEligibleEither(remaining_laps, current_tire_age) ==
    remaining_laps <= 8 \/ current_tire_age < 12

\* the no-pit scenario is evaluated only for a short remainder on fresh tires
NoPitEligible(remaining_laps, current_tire_age) ==
    remaining_laps <= 8 /\ current_tire_age < 12

\* the scenarios list built by calculate_pit_window before it is ranked; the
\* call's degradation_rate is given in hundredths of a percent and its
\* baseline_laptime in tenths of a second, as the decimals the caller wrote
EvaluatedScenarios(a) ==
    LET remaining_laps == a.total_race_laps - a.current_lap
        max_lookahead == Min(15, remaining_laps)
        pit_laps == Range(a.current_lap + 1, a.current_lap + max_lookahead + 1)
        pit_scenarios ==
            [i \in 1..Len(pit_laps) |->
                EvaluatePitScenario(a.current_lap, pit_laps[i], a.total_race_laps,
                                    a.current_tire_age, Dec(a.degradation_rate, 100),
                                    Dec(a.baseline_laptime, 10))]
    IN  IF NoPitEligible(remaining_laps, a.current_tire_age)
        THEN Append(pit_scenarios,
                    EvaluateNoPitScenario(a.current_lap, a.total_race_laps,
                                          a.current_tire_age, Dec(a.degradation_rate, 100),
                                          Dec(a.baseline_laptime, 10)))
        ELSE pit_scenarios

\* a bucketing whose PIT_SOON bucket reaches one lap further
RecommendationSoonUpTo6(optimal_scenario, current_lap) ==
    IF optimal_scenario.pit_lap = 0 THEN <<"NO_PIT_RECOMMENDED">>
    ELSE LET laps_until_pit == optimal_scenario.pit_lap - current_lap
         IN  IF laps_until_pit <= 1 THEN <<"PIT_NOW">>
             ELSE IF laps_until_pit <= 3 THEN <<"PIT_IN_", laps_until_pit, "_LAPS">>
             ELSE IF laps_until_pit <= 6 THEN <<"PIT_SOON">>
             ELSE <<"PIT_WINDOW_LAP_", optimal_scenario.pit_lap>>

\* _generate_recommendation
GenerateRecommendation(optimal_scenario, current_lap) ==
    IF optimal_scenario.pit_lap = 0 THEN <<"NO_PIT_RECOMMENDED">>
    ELSE LET laps_until_pit == optimal_scenario.pit_lap - current_lap
         IN  IF laps_until_pit <= 1 THEN <<"PIT_NOW">>
             ELSE IF laps_until_pit <= 3 THEN <<"PIT_IN_", laps_until_pit, "_LAPS">>
             ELSE IF laps_until_pit <= 5 THEN <<"PIT_SOON">>
             ELSE <<"PIT_WINDOW_LAP_", optimal_scenario.pit_lap>>

Alternative(s) ==
    [pit_lap |-> s.pit_lap, net_advantage |-> s.net_advantage,
     score |-> s.recommendation_score]

\* calculate_pit_window: the returned dict, or the exception it ends in.
\* "evaluated" is the local list scenarios after the sort.
PitWindow(a) ==
    With(SortScenarios(EvaluatedScenarios(a)),
         LAMBDA scenarios :
             IF scenarios = <<>>
             THEN [raised |-> "IndexError", evaluated |-> scenarios]
             ELSE [raised |-> "none",
                   evaluated |-> scenarios,
                   optimal_pit_lap |-> scenarios[1].pit_lap,
                   laps_until_pit |->
                       IF scenarios[1].pit_lap > 0
                       THEN scenarios[1].pit_lap - a.current_lap ELSE 0,
                   projected_time_loss |-> scenarios[1].total_time_loss,
                   projected_time_gain |-> scenarios[1].total_time_gain,
                   net_advantage |-> scenarios[1].net_advantage,
                   recommendation |->
                       GenerateRecommendation(scenarios[1], a.current_lap),
                   confidence_score |-> scenarios[1].recommendation_score,
                   alternative_scenarios |->
                       [i \in 1..Min(3, Len(scenarios)) |-> Alternative(scenarios[i])]])

\* the laps the calls are made on, the start and lap 10, and the tire ages on
\* these laps: fresh, around the no-pit limit of 12 laps, and between
PitCurrentLaps == {0, 10}
PitTireAges == {0, 1, 5, 8, 11, 12, MaxTireAge}

\* the worked example: lap 10 of 30, tires 8 laps old, 0.2 %/lap, 98.5 s
ExamplePitArgs ==
    [current_lap |-> 10, total_race_laps |-> 30, current_tire_age |-> 8,
     degradation_rate |-> 20, baseline_laptime |-> 985]

PitArgs ==
    { [current_lap |-> c, total_race_laps |-> t, current_tire_age |-> g,
       degradation_rate |-> r, baseline_laptime |-> b] :
        c \in PitCurrentLaps, t \in 0..MaxLap, g \in PitTireAges,
        r \in Rates, b \in Baselines }

ValidPitArgs ==
    {a \in PitArgs : a.current_lap <= a.total_race_laps} \cup {ExamplePitArgs}

\* a caller takes the returned value (or the exception); the optimizer keeps
\* no state between calls
Return ==
    /\ call # NoCall
    /\ call' = NoCall
    /\ UNCHANGED <<model, degradation_df, rng, sims, sim_log>>

CalculatePitWindow ==
    /\ call = NoCall
    /\ \E a \in ValidPitArgs :
           call' = [op |-> "calculate_pit_window", args |-> a, ret |-> PitWindow(a)]
    /\ UNCHANGED <<model, degradation_df, rng, sims, sim_log>>

\* simulate_race_to_finish: the loop over range(current_lap + 1, total_race_laps + 1),
\* carrying (tire_age, total_time, lap_times, tire_ages)
RECURSIVE RaceToFinishLoop(_, _, _)
RaceToFinishLoop(a, lap, st) ==
    IF lap > a.total_race_laps THEN st
    ELSE LET pits == \E i \in 1..Len(a.pit_laps) : a.pit_laps[i] = lap
             age == IF pits THEN 0 ELSE st.tire_age
             lap_time == a.baseline_laptime * 10000
                         + a.baseline_laptime * (a.degradation_rate * age)
         IN  RaceToFinishLoop(a, lap + 1,
                 [tire_age |-> age + 1,
                  total_time |-> st.total_time
                                 + (IF pits THEN typical_pit_time ELSE 0) + lap_time,
                  lap_times |-> Append(st.lap_times, lap_time),
                  tire_ages |-> Append(st.tire_ages, age)])

SeqMax(s) == CHOOSE x \in {s[i] : i \in 1..Len(s)} : \A j \in 1..Len(s) : s[j] <= x
SeqMin(s) == CHOOSE x \in {s[i] : i \in 1..Len(s)} : \A j \in 1..Len(s) : s[j] >= x

\* np.mean of an empty list is nan (a warning); np.max of an empty list raises
\* ValueError.  average_lap_time is kept as the pair (sum, count).
SimulateRaceToFinish(a) ==
    LET st == RaceToFinishLoop(a, a.current_lap + 1,
                  [tire_age |-> a.current_tire_age, total_time |-> 0,
                   lap_times |-> <<>>, tire_ages |-> <<>>])
    IN  IF st.lap_times = <<>>
        THEN [raised |-> "ValueError"]
        ELSE [raised |-> "none",
              total_race_time |-> st.total_time,
              average_lap_time |-> <<SeqSum(st.lap_times), Len(st.lap_times)>>,
              slowest_lap_time |-> SeqMax(st.lap_times),
              fastest_lap_time |-> SeqMin(st.lap_times),
              total_pit_stops |-> Len(a.pit_laps),
              final_tire_age |-> st.tire_age,
              lap_times |-> st.lap_times]

PitLapLists ==
    {<<>>} \cup {<<p>> : p \in 0..(MaxStfLap + 1)}
           \cup {<<p, q>> : p \in 0..(MaxStfLap + 1), q \in 0..(MaxStfLap + 1)}

RaceToFinishArgs ==
    { [current_lap |-> c, total_race_laps |-> t, current_tire_age |-> g,
       pit_laps |-> pl, degradation_rate |-> r, baseline_laptime |-> b] :
        c \in 0..MaxStfLap, t \in 0..MaxStfLap, g \in 0..MaxStfTireAge,
        pl \in PitLapLists, r \in Rates, b \in Baselines }

ValidRaceToFinishArgs == {a \in RaceToFinishArgs : a.current_lap <= a.total_race_laps}

CallSimulateRaceToFinish ==
    /\ call = NoCall
    /\ \E a \in ValidRaceToFinishArgs :
           call' = [op |-> "simulate_race_to_finish", args |-> a,
                    ret |-> SimulateRaceToFinish(a)]
    /\ UNCHANGED <<model, degradation_df, rng, sims, sim_log>>

InitPit ==
    /\ call = NoCall
    /\ model = Unfitted
    /\ degradation_df = NoDf
    /\ rng = NpRandomSeed(0)
    /\ sims = <<>>
    /\ sim_log = {}

NextPit == CalculatePitWindow \/ CallSimulateRaceToFinish \/ Return

SpecPit == InitPit /\ [][NextPit]_vars

\* ------------------------------------------------ claims on the optimizer
IsPitWindowCall == call.op = "calculate_pit_window"
PitWindowReturned == IsPitWindowCall /\ call.ret.raised = "none"

\* number of evaluated scenarios strictly better than net advantage n
BetterThan(ev, n) == Cardinality({i \in 1..Len(ev) : DblLess(n, ev[i].net_advantage)})

\* C1: in every calculate_pit_window call that returns, the scenario reported as
\* optimal is one of the evaluated scenarios and its net_advantage is >= that of
\* every scenario evaluated in the call; alternative_scenarios holds
\* min(3, number of scenarios) evaluated scenarios in non-increasing
\* net_advantage order, the k-th having fewer than k evaluated scenarios strictly
\* better than it, and starts with the optimal one.
C1_OptimalIsBest ==
    PitWindowReturned =>
        LET ev == call.ret.evaluated
            alt == call.ret.alternative_scenarios
        IN  /\ \A i \in 1..Len(ev) : DblLeq(ev[i].net_advantage, call.ret.net_advantage)
            /\ \E i \in 1..Len(ev) :
                   /\ ev[i].pit_lap = call.ret.optimal_pit_lap
                   /\ ev[i].net_advantage = call.ret.net_advantage
            /\ Len(alt) = Min(3, Len(ev))
            /\ alt[1].pit_lap = call.ret.optimal_pit_lap
            /\ alt[1].net_advantage = call.ret.net_advantage
            /\ \A k \in 1..Len(alt) :
                   /\ \E i \in 1..Len(ev) : Alternative(ev[i]) = alt[k]
                   /\ BetterThan(ev, alt[k].net_advantage) < k
                   /\ k > 1 => DblLeq(alt[k].net_advantage, alt[k - 1].net_advantage)
            /\ \A k \in 1..Len(alt) : \A j \in 1..Len(alt) :
                   k # j => alt[k].pit_lap # alt[j].pit_lap

\* a returned call whose best scenario was not the first one evaluated, with
\* more than three scenarios and the no-pit scenario among them
C1_Witness ==
    /\ PitWindowReturned
    /\ Len(call.ret.evaluated) > 3
    /\ call.ret.optimal_pit_lap > call.args.current_lap + 1
    /\ \E i \in 1..Len(call.ret.evaluated) : call.ret.evaluated[i].pit_lap = 0

\* C2: calculate_pit_window never raises for 0 <= current_lap <= total_race_laps,
\* current_tire_age >= 0, degradation_rate >= 0, baseline_laptime > 0.
C2_NeverRaises ==
    (/\ IsPitWindowCall
     /\ call.args.current_lap >= 0
     /\ call.args.current_lap <= call.args.total_race_laps
     /\ call.args.current_tire_age >= 0
     /\ call.args.degradation_rate >= 0
     /\ call.args.baseline_laptime > 0)
    => call.ret.raised = "none"

\* sum of baseline * (1 + rate * age / 100) for age = lo .. hi
RECURSIVE SumAges(_, _, _, _)
SumAges(b, r, lo, hi) ==
    IF lo > hi THEN 0 ELSE b * 10000 + b * (r * lo) + SumAges(b, r, lo + 1, hi)

\* C3: with an empty pit_laps list simulate_race_to_finish returns the sum over
\* tire ages current_tire_age+1 .. current_tire_age+remaining_laps of
\* baseline * (1 + rate * age / 100).
C3_NoPitTotalFromAgePlusOne ==
    (/\ call.op = "simulate_race_to_finish"
     /\ call.args.pit_laps = <<>>
     /\ call.ret.raised = "none")
    => call.ret.total_race_time =
           SumAges(call.args.baseline_laptime, call.args.degradation_rate,
                   call.args.current_tire_age + 1,
                   call.args.current_tire_age
                     + (call.args.total_race_laps - call.args.current_lap))

IsExampleCall == IsPitWindowCall /\ call.args = ExamplePitArgs

\* C5 as stated: for the example call no no-pit scenario is evaluated and the
\* optimal pit lap P satisfies 11 < P < 25.
C5_StrictlyBetween ==
    IsExampleCall =>
        /\ call.ret.raised = "none"
        /\ \A i \in 1..Len(call.ret.evaluated) : call.ret.evaluated[i].pit_lap # 0
        /\ 11 < call.ret.optimal_pit_lap
        /\ call.ret.optimal_pit_lap < 25

\* C5 amended: for the example call no no-pit scenario is evaluated and the
\* optimal pit lap P satisfies 11 <= P <= 25; it is 11, the first candidate.
C5_WithinCandidates ==
    IsExampleCall =>
        /\ call.ret.raised = "none"
        /\ \A i \in 1..Len(call.ret.evaluated) : call.ret.evaluated[i].pit_lap # 0
        /\ 11 <= call.ret.optimal_pit_lap
        /\ call.ret.optimal_pit_lap <= 25
        /\ call.ret.optimal_pit_lap = 11

C5_Witness ==
    /\ IsExampleCall
    /\ Len(call.ret.evaluated) = 15
    /\ call.ret.recommendation = <<"PIT_NOW">>

\* =================================================== TireDegradationModel
\* One vehicle's rows of df_laps, as the calls with a vehicle_id filter see it
\* (api/strategy.py:34): the group has Len(times) + 1 rows in timestamp order,
\* times[k] is the timestamp difference between rows k and k + 1 in whole
\* seconds and lap_nums[k] is the 'lap' column of row k + 1, which the code
\* reads as it is in the file.  An absent vehicle has no rows.

\* a lap column that numbers the rows 1, 2, 3, ...
SequentialLaps(n) == [k \in 1..n |-> k + 1]

\* a lap column in which two rows carry lap number 2
RepeatedLaps(n) == [k \in 1..n |-> IF k = 1 THEN 2 ELSE k]

\* the erroneous lap value of the data files (data/loader.py:31-33), and a lap
\* column that has it on two rows
LapCorruption == 32768
CorruptLaps(n) == [k \in 1..n |-> IF k <= 2 THEN LapCorruption ELSE k + 1]

\* the lap columns the normalizer is driven with
LapColumnKinds == {"sequential", "repeated", "corrupt"}
LapColumn(kind, n) ==
    IF kind = "sequential" THEN SequentialLaps(n)
    ELSE IF kind = "repeated" THEN RepeatedLaps(n)
    ELSE CorruptLaps(n)

RECURSIVE InsertAsc(_, _)
InsertAsc(sorted, x) ==
    IF sorted = <<>> THEN <<x>>
    ELSE IF Head(sorted) <= x THEN <<Head(sorted)>> \o InsertAsc(Tail(sorted), x)
         ELSE <<x>> \o sorted

RECURSIVE InsertLargestFirst(_, _)
InsertLargestFirst(sorted, x) ==
    IF sorted = <<>> THEN <<x>>
    ELSE IF Head(sorted) >= x THEN <<Head(sorted)>> \o InsertLargestFirst(Tail(sorted), x)
         ELSE <<x>> \o sorted

RECURSIVE NpSortFrom(_, _)
NpSortFrom(xs, i) ==
    IF i = 0 THEN <<>> ELSE InsertAsc(NpSortFrom(xs, i - 1), xs[i])

RECURSIVE LargestFirstFrom(_, _)
LargestFirstFrom(xs, i) ==
    IF i = 0 THEN <<>> ELSE InsertLargestFirst(LargestFirstFrom(xs, i - 1), xs[i])

\* a sort in the wrong direction
NpSortDescending(xs) == LargestFirstFrom(xs, Len(xs))

\* np.sort
NpSort(xs) == NpSortFrom(xs, Len(xs))

\* twice np.median(xs), xs not empty
Median2(xs) ==
    LET s == NpSort(xs)
        n == Len(s)
    IN  IF n % 2 = 1 THEN 2 * s[(n + 1) \div 2] ELSE s[n \div 2] + s[n \div 2 + 1]

pit_time_threshold == 130

\* detect_pit_stops_from_lap_times for the vehicle: the lap numbers whose lap
\* time exceeds max(pit_time_threshold, median * 1.5)
DetectPitStops(times, lap_nums) ==
    IF times = <<>> THEN <<>>
    ELSE LET med2 == Median2(times)
             pit_indices ==
                 SelectSeq([k \in 1..Len(times) |-> k],
                     LAMBDA k : 4 * times[k] > Max(4 * pit_time_threshold, 3 * med2))
         IN  [j \in 1..Len(pit_indices) |-> lap_nums[pit_indices[j]]]

\* a mask that accepts every lap
ValidLapsUnfiltered(times) == [k \in 1..Len(times) |-> TRUE]

\* the boolean mask valid_laps: inside median +- 3 * MAD and inside [80, 130]
ValidLaps(times) ==
    LET med2 == Median2(times)
        mad4 == Median2([k \in 1..Len(times) |-> Abs(2 * times[k] - med2)])
        lower4 == 2 * med2 - 3 * mad4
        upper4 == 2 * med2 + 3 * mad4
    IN  [k \in 1..Len(times) |->
            /\ 4 * times[k] >= Max(4 * 80, lower4)
            /\ 4 * times[k] <= Min(4 * 130, upper4)]

\* indices of the accepted laps, in order
CleanIndices(times) ==
    LET valid == ValidLaps(times)
    IN  SelectSeq([k \in 1..Len(times) |-> k], LAMBDA k : valid[k])

\* three times baseline_time = np.mean(sorted_times[:3])
Baseline3(clean_lap_times) ==
    LET sorted_times == NpSort(clean_lap_times)
    IN  sorted_times[1] + sorted_times[2] + sorted_times[3]

InList(x, list) == \E i \in 1..Len(list) : list[i] = x

\* a bookkeeping loop that resets tire_age at a pit lap and keeps the stint
RECURSIVE DegradationRowsOneStint(_, _, _, _, _, _, _)
DegradationRowsOneStint(clean_nums, clean_times, baseline3, pits, i, tire_age, stint_number) ==
    IF i > Len(clean_nums) THEN <<>>
    ELSE LET is_pit == InList(clean_nums[i], pits)
             age == IF is_pit THEN 1 ELSE tire_age + 1
             stint == stint_number
         IN  <<[lap_number |-> clean_nums[i],
                stint_number |-> stint,
                tire_age |-> age,
                lap_time |-> clean_times[i],
                baseline_time3 |-> baseline3,
                time_delta3 |-> 3 * clean_times[i] - baseline3,
                \* degradation_pct as the fraction <<numerator, denominator>>
                degradation_pct |-> <<(3 * clean_times[i] - baseline3) * 100, baseline3>>,
                cumulative_laps |-> i,
                is_pit_lap |-> is_pit]>>
             \o DegradationRowsOneStint(clean_nums, clean_times, baseline3, pits, i + 1, age, stint)

\* the loop over the accepted laps: tire_age and stint_number bookkeeping
RECURSIVE DegradationRows(_, _, _, _, _, _, _)
DegradationRows(clean_nums, clean_times, baseline3, pits, i, tire_age, stint_number) ==
    IF i > Len(clean_nums) THEN <<>>
    ELSE LET is_pit == InList(clean_nums[i], pits)
             age == IF is_pit THEN 1 ELSE tire_age + 1
             stint == IF is_pit THEN stint_number + 1 ELSE stint_number
         IN  <<[lap_number |-> clean_nums[i],
                stint_number |-> stint,
                tire_age |-> age,
                lap_time |-> clean_times[i],
                baseline_time3 |-> baseline3,
                time_delta3 |-> 3 * clean_times[i] - baseline3,
                \* degradation_pct as the fraction <<numerator, denominator>>
                degradation_pct |-> <<(3 * clean_times[i] - baseline3) * 100, baseline3>>,
                cumulative_laps |-> i,
                is_pit_lap |-> is_pit]>>
             \o DegradationRows(clean_nums, clean_times, baseline3, pits, i + 1, age, stint)

\* pit_stops is None (auto-detect from the lap times) or a dict, of which
\* pit_stops.get(str(vehicle), []) is the list laps
VehiclePitStops(times, lap_nums, pit_stops) ==
    IF pit_stops.is_none THEN DetectPitStops(times, lap_nums) ELSE pit_stops.laps

\* calculate_lap_degradation for the vehicle: the rows of the returned DataFrame.
\* A group of fewer than 5 rows, fewer than 5 lap times or fewer than 5 accepted
\* lap times is passed over (continue) and contributes no rows.
LapDegradation(times, lap_nums, pit_stops) ==
    IF Len(times) + 1 < 5 \/ Len(times) < 5 THEN <<>>
    ELSE LET idx == CleanIndices(times)
             clean_lap_times == [j \in 1..Len(idx) |-> times[idx[j]]]
             clean_lap_nums == [j \in 1..Len(idx) |-> lap_nums[idx[j]]]
         IN  IF Len(clean_lap_times) < 5 THEN <<>>
             ELSE DegradationRows(clean_lap_nums, clean_lap_times,
                                  Baseline3(clean_lap_times),
                                  VehiclePitStops(times, lap_nums, pit_stops), 1, 0, 1)

CalculateLapDegradation(a) ==
    [raised |-> "none", df |-> LapDegradation(a.times, a.lap_nums, a.pit_stops)]

\* lap times in seconds: two clean paces and a pit-stop lap
LapTimeValues == {90, 96, 150}

RECURSIVE SeqsUpTo(_, _)
SeqsUpTo(S, n) ==
    IF n = 0 THEN {<<>>}
    ELSE LET shorter == SeqsUpTo(S, n - 1)
         IN  shorter \cup {Append(q, x) : q \in {r \in shorter : Len(r) = n - 1}, x \in S}

PitStopArgs(n) ==
    {[is_none |-> TRUE, laps |-> <<>>]}
    \cup {[is_none |-> FALSE, laps |-> l] :
            l \in {<<>>} \cup {<<p>> : p \in 1..(n + 1)}
                  \cup {<<p, q>> : p \in 1..(n + 1), q \in 2..(n + 1)}}

\* the arguments of calculate_lap_degradation: lap times, lap column and
\* pit-stop list.  A sequential lap column comes with every pit-stop argument;
\* with the other lap columns the call detects the pit laps itself, and with
\* the repeated number it is also handed the list [2]
LapDegradationArgs(n) ==
    LET auto == [is_none |-> TRUE, laps |-> <<>>]
        columns ==
            {[kind |-> "sequential", pit_stops |-> ps] :
                ps \in {x \in PitStopArgs(n) :
                           Len(x.laps) = 2 => x.laps[1] < x.laps[2]}}
            \cup {[kind |-> k, pit_stops |-> auto] : k \in LapColumnKinds}
            \cup {[kind |-> "repeated",
                   pit_stops |-> [is_none |-> FALSE, laps |-> <<2>>]]}
    IN  { [times |-> t, lap_nums |-> LapColumn(c.kind, Len(t)),
           pit_stops |-> c.pit_stops] :
            t \in SeqsUpTo(LapTimeValues, n), c \in columns }

\* the pit laps handed in are laps of the race
ValidLapDegradationArgs(n) ==
    {x \in LapDegradationArgs(n) :
        \A i \in 1..Len(x.pit_stops.laps) :
            /\ x.pit_stops.laps[i] <= Len(x.times) + 1
            /\ i > 1 => x.pit_stops.laps[i - 1] < x.pit_stops.laps[i]}

\* a request handler computes the DataFrame once (api/strategy.py:33-34) and
\* keeps it to hand it to fit_degradation_model
CalcLapDegradation(Args) ==
    /\ call = NoCall
    /\ ~degradation_df.computed
    /\ \E a \in Args :
           \E ret \in {CalculateLapDegradation(a)} :
               /\ call' = [op |-> "calculate_lap_degradation", args |-> a, ret |-> ret]
               /\ degradation_df' = [computed |-> TRUE, rows |-> ret.df]
    /\ UNCHANGED <<model, rng, sims, sim_log>>

CallCalculateLapDegradation == CalcLapDegradation(ValidLapDegradationArgs(MaxLapTimes))

NextNorm == CallCalculateLapDegradation \/ Return

SpecNorm == InitPit /\ [][NextNorm]_vars

\* ----------------------------------------------- claims on the normalizer
IsLapDegradationCall == call.op = "calculate_lap_degradation"

\* number of accepted (post-filter) lap times of the call's vehicle
AcceptedLaps(times) == IF times = <<>> THEN 0 ELSE Len(CleanIndices(times))

\* row j of df is the accepted lap immediately following pit lap p
FollowsPitLap(df, j, p) ==
    /\ p < df[j].lap_number
    /\ j > 1 => df[j - 1].lap_number <= p

\* C4: for every pit lap p of the vehicle the accepted lap immediately
\* following p has tire_age 1 and a stint_number one higher than the sample
\* before it, and tire_age is reset nowhere else (it grows by one).
C4_ResetOnLapAfterPit ==
    IsLapDegradationCall =>
        LET df == call.ret.df
            pits == VehiclePitStops(call.args.times, call.args.lap_nums,
                                    call.args.pit_stops)
        IN  \A j \in 1..Len(df) :
                IF \E i \in 1..Len(pits) : FollowsPitLap(df, j, pits[i])
                THEN /\ df[j].tire_age = 1
                     /\ j > 1 => df[j].stint_number = df[j - 1].stint_number + 1
                ELSE j > 1 => /\ df[j].tire_age = df[j - 1].tire_age + 1
                              /\ df[j].stint_number = df[j - 1].stint_number

\* rows i, j, k of df are three smallest accepted lap times
ThreeSmallest(df, i, j, k) ==
    /\ i # j /\ i # k /\ j # k
    /\ \A m \in 1..Len(df) :
           m \notin {i, j, k} =>
               /\ df[m].lap_time >= df[i].lap_time
               /\ df[m].lap_time >= df[j].lap_time
               /\ df[m].lap_time >= df[k].lap_time

\* C6 as stated: baseline_time is the mean of the 3 smallest accepted lap times
\* and each of the three laps composing it has degradation_pct <= 0.
C6_BaselineLapsAllAtOrBelow ==
    (IsLapDegradationCall /\ call.ret.df # <<>>) =>
        LET df == call.ret.df
        IN  \E i, j, k \in 1..Len(df) :
                /\ ThreeSmallest(df, i, j, k)
                /\ \A m \in 1..Len(df) :
                       df[m].baseline_time3
                           = df[i].lap_time + df[j].lap_time + df[k].lap_time
                /\ df[i].degradation_pct[1] <= 0
                /\ df[j].degradation_pct[1] <= 0
                /\ df[k].degradation_pct[1] <= 0

\* C6 amended: baseline_time is the mean of the 3 smallest accepted lap times
\* and the fastest of the three laps composing it has degradation_pct <= 0,
\* degradation_pct being (lap_time - baseline_time) / baseline_time * 100.
C6_BaselineFastestAtOrBelow ==
    (IsLapDegradationCall /\ call.ret.df # <<>>) =>
        LET df == call.ret.df
        IN  /\ Len(df) = AcceptedLaps(call.args.times)
            /\ Len(df) >= 5
            /\ \E i, j, k \in 1..Len(df) :
                   /\ ThreeSmallest(df, i, j, k)
                   /\ \A m \in 1..Len(df) :
                          /\ df[m].baseline_time3
                                 = df[i].lap_time + df[j].lap_time + df[k].lap_time
                          /\ df[m].degradation_pct
                                 = <<(3 * df[m].lap_time - df[m].baseline_time3) * 100,
                                     df[m].baseline_time3>>
                   /\ \A m \in 1..Len(df) : df[i].lap_time <= df[m].lap_time
                   /\ df[i].degradation_pct[1] <= 0

\* a returned DataFrame in which one of the three laps composing the baseline
\* is slower than the baseline
C6_Witness ==
    /\ IsLapDegradationCall
    /\ call.ret.df # <<>>
    /\ \E i, j, k \in 1..Len(call.ret.df) :
           /\ ThreeSmallest(call.ret.df, i, j, k)
           /\ call.ret.df[k].degradation_pct[1] > 0
           /\ call.ret.df[i].degradation_pct[1] < 0

\* C8: with fewer than 5 accepted laps normalising the vehicle ends in an
\* InsufficientDataError, not in a skipped vehicle or an empty result; with 5 or
\* more no such error occurs and samples are produced.
C8_InsufficientDataError ==
    (IsLapDegradationCall /\ call.args.times # <<>>) =>
        IF AcceptedLaps(call.args.times) < 5
        THEN call.ret.raised = "InsufficientDataError"
        ELSE call.ret.raised = "none" /\ call.ret.df # <<>>

\* ------------------------------------------------------ fit and prediction
\* the sum and the product of the values of a function
RECURSIVE SetSum(_)
SetSum(f) ==
    IF DOMAIN f = {} THEN 0
    ELSE LET x == CHOOSE y \in DOMAIN f : TRUE
         IN  f[x] + SetSum([z \in DOMAIN f \ {x} |-> f[z]])

RECURSIVE SetProduct(_)
SetProduct(f) ==
    IF DOMAIN f = {} THEN 1
    ELSE LET x == CHOOSE y \in DOMAIN f : TRUE
         IN  f[x] * SetProduct([z \in DOMAIN f \ {x} |-> f[z]])

RECURSIVE GCD(_, _)
GCD(a, b) == IF b = 0 THEN Abs(a) ELSE GCD(b, a % Abs(b))

\* self.degradation_rate (percent per lap) as the fraction <<numerator,
\* denominator>>: the slope of the least-squares line through the per-age means
\* of degradation_pct, or 0.1 when there is a single tire age
DegradationRate(rows) ==
    LET ages == {rows[i].tire_age : i \in 1..Len(rows)}
        n == Cardinality(ages)
        Count(a) == Cardinality({i \in 1..Len(rows) : rows[i].tire_age = a})
        DeltaSum(a) ==
            SetSum([i \in {j \in 1..Len(rows) : rows[j].tire_age = a} |->
                       rows[i].time_delta3])
        k == SetProduct([a \in ages |-> Count(a)])
        \* k * baseline3 / 100 times the mean degradation_pct at age a
        Mean(a) == DeltaSum(a) * (k \div Count(a))
        Sa == SetSum([a \in ages |-> a])
        Saa == SetSum([a \in ages |-> a * a])
        Sm == SetSum([a \in ages |-> Mean(a)])
        Sam == SetSum([a \in ages |-> a * Mean(a)])
        \* the slope of the line is num / (k * baseline3 * den)
        num == 100 * (n * Sam - Sa * Sm)
        den == n * Saa - Sa * Sa
        g == GCD(num, den)
    IN  IF n > 1
        THEN <<num \div g, k * rows[1].baseline_time3 * (den \div g)>>
        ELSE <<1, 10>>

\* the fraction-free form of a quadratic <<n0, n1, n2, den>>, den > 0, which
\* stands for the curve age |-> (n0 + n1 * age + n2 * age^2) / den
ReduceCurve(n0, n1, n2, den) ==
    LET g == GCD(GCD(n0, n1), GCD(n2, den))
    IN  <<n0 \div g, n1 \div g, n2 \div g, den \div g>>

\* LinearRegression().fit(PolynomialFeatures(degree=2, include_bias=False)
\* .fit_transform(X), y): the least-squares quadratic through the points
\* (tire_age, degradation_pct) of the rows, as the curve of degradation_pct in
\* percent. With three or more distinct tire ages it is the solution of the
\* normal equations; with fewer the centred system is rank deficient and
\* lstsq returns its minimum-norm solution.
PolyFit(rows) ==
    LET I == 1..Len(rows)
        ages == {rows[i].tire_age : i \in I}
        q == rows[1].baseline_time3
        n == Len(rows)
        S1 == SetSum([i \in I |-> rows[i].tire_age])
        S2 == SetSum([i \in I |-> rows[i].tire_age ^ 2])
        S3 == SetSum([i \in I |-> rows[i].tire_age ^ 3])
        S4 == SetSum([i \in I |-> rows[i].tire_age ^ 4])
        T0 == SetSum([i \in I |-> rows[i].time_delta3])
        T1 == SetSum([i \in I |-> rows[i].tire_age * rows[i].time_delta3])
        T2 == SetSum([i \in I |-> rows[i].tire_age ^ 2 * rows[i].time_delta3])
        D == n * (S2 * S4 - S3 * S3) - S1 * (S1 * S4 - S2 * S3) + S2 * (S1 * S3 - S2 * S2)
        N0 == T0 * (S2 * S4 - S3 * S3) - S1 * (T1 * S4 - T2 * S3) + S2 * (T1 * S3 - T2 * S2)
        N1 == n * (T1 * S4 - T2 * S3) - T0 * (S1 * S4 - S2 * S3) + S2 * (S1 * T2 - S2 * T1)
        N2 == n * (S2 * T2 - S3 * T1) - S1 * (S1 * T2 - S2 * T1) + T0 * (S1 * S3 - S2 * S2)
        full == ReduceCurve(N0, N1, N2, D)
        \* two distinct ages: the slope s = sn / sd of the line through the
        \* points is shared between the two features in the proportion
        \* 1 : sigma, sigma the sum of the two ages
        sigma == SetSum([a \in ages |-> a])
        sn == n * T1 - S1 * T0
        sd == n * S2 - S1 * S1
        w == 1 + sigma * sigma
        two == ReduceCurve(T0 * sd * w - sn * S1 - sn * sigma * S2, n * sn, n * sn * sigma,
                           n * sd * w)
        one == ReduceCurve(T0, 0, 0, n)
        c == IF Cardinality(ages) >= 3 THEN full
             ELSE IF Cardinality(ages) = 2 THEN two ELSE one
    IN  ReduceCurve(100 * c[1], 100 * c[2], 100 * c[3], c[4] * q)

\* fit_degradation_model(degradation_df): the new instance state and the outcome.
\* mae and r2_score are left out.
FitDegradationModel(rows) ==
    IF rows = <<>>
    THEN [state |-> model, raised |-> "ValueError: No degradation data"]
    ELSE [state |-> [model |-> "LinearRegression",
                     poly_features |-> "PolynomialFeatures",
                     coef |-> PolyFit(rows),
                     degradation_rate |-> DegradationRate(rows),
                     baseline_laptime |-> <<rows[1].baseline_time3, 3>>],
          raised |-> "none"]

NotFitted == "ValueError: Model not fitted"

\* the fitted curve at tire_age, as the fraction <<numerator, denominator>>
CurveAt(coef, tire_age) ==
    <<coef[1] + coef[2] * tire_age + coef[3] * tire_age * tire_age, coef[4]>>

\* predict_degradation: the outcome and the predicted degradation in percent
PredictDegradation(m, tire_age) ==
    IF m.model = "None" THEN [raised |-> NotFitted]
    ELSE [raised |-> "none", value |-> CurveAt(m.coef, tire_age)]

\* estimate_remaining_performance: predict_degradation is called once per
\* iteration of range(1, target_laps + 1), and its exception passes through
RECURSIVE RemainingPerformanceLoop(_, _, _, _, _)
RemainingPerformanceLoop(m, current_tire_age, target_laps, i, predictions) ==
    IF i > target_laps THEN [raised |-> "none", predictions |-> predictions]
    ELSE LET future_tire_age == current_tire_age + i
             outcome == PredictDegradation(m, future_tire_age)
         IN  IF outcome.raised # "none" THEN [raised |-> outcome.raised, predictions |-> <<>>]
             ELSE RemainingPerformanceLoop(m, current_tire_age, target_laps, i + 1,
                      Append(predictions, [lap |-> i, tire_age |-> future_tire_age,
                                           degradation_pct |-> outcome.value]))

EstimateRemainingPerformance(m, current_tire_age, target_laps) ==
    RemainingPerformanceLoop(m, current_tire_age, target_laps, 1, <<>>)

\* the tire ages of the scan at which the fitted curve is the threshold itself.
\* The code compares the float the regression predicts, which there is the
\* threshold or a rounding error to either side of it.
TiedAges(m, current_tire_age, max_degradation_threshold) ==
    IF m.model = "None" THEN {}
    ELSE {a \in (current_tire_age + 1)..(current_tire_age + 49) :
             CurveAt(m.coef, a)[1] = max_degradation_threshold * CurveAt(m.coef, a)[2]}

\* the outcomes of the rounding that the scan can tell apart: the prediction
\* is above the threshold at none of the tied ages, or first at one of them
Roundings(m, current_tire_age, max_degradation_threshold) ==
    {{}} \cup {{a} : a \in TiedAges(m, current_tire_age, max_degradation_threshold)}

\* degradation_pct > max_degradation_threshold on the predicted float; above
\* is the set of tied ages at which the prediction is rounded above the
\* threshold; thresholds are whole percents
PredictionExceeds(m, tire_age, max_degradation_threshold, above) ==
    LET degradation_pct == CurveAt(m.coef, tire_age)
    IN  \/ degradation_pct[1] > max_degradation_threshold * degradation_pct[2]
        \/ /\ degradation_pct[1] = max_degradation_threshold * degradation_pct[2]
           /\ tire_age \in above

\* the loop of calculate_optimal_stint_length over range(1, 50): the tire ages
\* examined so far and the recommended pit age
RECURSIVE StintScan(_, _, _, _, _, _)
StintScan(m, current_tire_age, max_degradation_threshold, above, additional_laps, scanned) ==
    IF additional_laps >= 50
    THEN [recommended_pit_age |-> current_tire_age + 15, scanned |-> scanned]
    ELSE LET future_tire_age == current_tire_age + additional_laps
         IN  IF PredictionExceeds(m, future_tire_age, max_degradation_threshold, above)
             THEN [recommended_pit_age |-> future_tire_age - 1,
                   scanned |-> Append(scanned, future_tire_age)]
             ELSE StintScan(m, current_tire_age, max_degradation_threshold, above,
                            additional_laps + 1, Append(scanned, future_tire_age))

\* calculate_optimal_stint_length; cumulative_time_loss is left out, and
\* scanned (the tire ages handed to predict_degradation by the loop, in order)
\* and above are added to the returned dict
CalculateOptimalStintLength(m, current_tire_age, max_degradation_threshold, above) ==
    IF m.model = "None" THEN [raised |-> NotFitted]
    ELSE LET scan == StintScan(m, current_tire_age, max_degradation_threshold, above, 1, <<>>)
             remaining_laps_available == scan.recommended_pit_age - current_tire_age
         IN  [raised |-> "none",
              optimal_tire_age_for_pit |-> scan.recommended_pit_age,
              remaining_laps_on_tires |-> remaining_laps_available,
              projected_degradation_at_pit |-> CurveAt(m.coef, scan.recommended_pit_age),
              recommendation |-> IF remaining_laps_available > 3 THEN "CONTINUE"
                                 ELSE IF remaining_laps_available > 1 THEN "CONSIDER_PIT"
                                 ELSE "PIT_NOW",
              scanned |-> scan.scanned,
              above |-> above]

\* the lap series the model's life cycle is driven with
ExampleLapDegradationArgs ==
    { [times |-> <<>>, lap_nums |-> SequentialLaps(0),
       pit_stops |-> [is_none |-> TRUE, laps |-> <<>>]],
      [times |-> <<90, 96, 150, 90>>, lap_nums |-> SequentialLaps(4),
       pit_stops |-> [is_none |-> TRUE, laps |-> <<>>]],
      [times |-> <<90, 90, 90, 96, 96, 96>>, lap_nums |-> SequentialLaps(6),
       pit_stops |-> [is_none |-> TRUE, laps |-> <<>>]],
      [times |-> <<90, 90, 150, 96, 96, 96>>, lap_nums |-> SequentialLaps(6),
       pit_stops |-> [is_none |-> TRUE, laps |-> <<>>]],
      [times |-> <<90, 96, 90, 96, 90, 96>>, lap_nums |-> SequentialLaps(6),
       pit_stops |-> [is_none |-> FALSE, laps |-> <<4>>]],
      [times |-> <<90, 90, 90, 96, 96, 96>>, lap_nums |-> SequentialLaps(6),
       pit_stops |-> [is_none |-> FALSE, laps |-> <<3, 5>>]] }

ModelCalculateLapDegradation == CalcLapDegradation(ExampleLapDegradationArgs)

\* max_degradation_threshold in percent: none at all, the default and a loose one
Thresholds == {0, 3, 47}

CallFitDegradationModel ==
    /\ call = NoCall
    /\ degradation_df.computed
    /\ LET fit == FitDegradationModel(degradation_df.rows)
       IN  /\ model' = fit.state
           /\ call' = [op |-> "fit_degradation_model", args |-> degradation_df.rows,
                       ret |-> [raised |-> fit.raised]]
    /\ UNCHANGED <<degradation_df, rng, sims, sim_log>>

CallPredictDegradation ==
    /\ call = NoCall
    /\ \E age \in 0..MaxPredictAge :
           call' = [op |-> "predict_degradation", args |-> [tire_age |-> age],
                    ret |-> PredictDegradation(model, age)]
    /\ UNCHANGED <<model, degradation_df, rng, sims, sim_log>>

CallEstimateRemainingPerformance ==
    /\ call = NoCall
    /\ \E age \in 0..MaxPredictAge, n \in 0..MaxPredictAge :
           call' = [op |-> "estimate_remaining_performance",
                    args |-> [current_tire_age |-> age, target_laps |-> n],
                    ret |-> EstimateRemainingPerformance(model, age, n)]
    /\ UNCHANGED <<model, degradation_df, rng, sims, sim_log>>

CallCalculateOptimalStintLength ==
    /\ call = NoCall
    /\ \E age \in 0..MaxPredictAge, threshold \in Thresholds :
           \E above \in Roundings(model, age, threshold) :
               call' = [op |-> "calculate_optimal_stint_length",
                        args |-> [current_tire_age |-> age,
                                  max_degradation_threshold |-> threshold],
                        ret |-> CalculateOptimalStintLength(model, age, threshold, above)]
    /\ UNCHANGED <<model, degradation_df, rng, sims, sim_log>>

NextModel ==
    \/ ModelCalculateLapDegradation
    \/ CallFitDegradationModel
    \/ CallPredictDegradation
    \/ CallEstimateRemainingPerformance
    \/ CallCalculateOptimalStintLength
    \/ Return

SpecModel == InitPit /\ [][NextModel]_vars

\* ------------------------------------------ claims on the fitted-model gate
IsModelQuery ==
    call.op \in {"predict_degradation", "estimate_remaining_performance",
                 "calculate_optimal_stint_length"}

\* C7: on a model on which fit_degradation_model has not completed, every call
\* of predict_degradation, estimate_remaining_performance and
\* calculate_optimal_stint_length, a forecast of 0 laps included, ends in the
\* "model not fitted" error; once fit has completed none of them raises it.
C7_UnfittedAlwaysRaises ==
    IsModelQuery =>
        IF model.model = "None"
        THEN call.ret.raised = NotFitted
        ELSE call.ret.raised # NotFitted

\* =========================================================== RaceSimulator
Compounds == {"soft", "medium", "hard"}

\* the three TireCharacteristics: grip in seconds, degradation rate in percent
\* per lap
TireCharacteristics ==
    [compound \in Compounds |->
        CASE compound = "soft" ->
                 [compound |-> "soft", base_grip_advantage |-> Dec(-5, 10),
                  degradation_rate |-> Dec(3, 10), cliff_lap |-> 12,
                  optimal_stint_length |-> 10]
          [] compound = "medium" ->
                 [compound |-> "medium", base_grip_advantage |-> DblZero,
                  degradation_rate |-> Dec(15, 100), cliff_lap |-> 18,
                  optimal_stint_length |-> 15]
          [] compound = "hard" ->
                 [compound |-> "hard", base_grip_advantage |-> Dec(3, 10),
                  degradation_rate |-> Dec(8, 100), cliff_lap |-> 25,
                  optimal_stint_length |-> 20]]

\* TireCharacteristics.get_compound_characteristics
CompoundCharacteristics(compound) == TireCharacteristics[compound]

\* PitStop(lap, new_compound): pit_loss_time defaults to 45.0 s
PitStop(lap, new_compound) ==
    [lap |-> lap, new_compound |-> new_compound, pit_loss_time |-> DblFromInt(45)]

\* the simulator instance: RaceSimulator(baseline_lap_time=98.5,
\* total_race_laps=SimRaceLaps) with the default fuel effect (0.03 s per lap of
\* fuel) and traffic variance (0.2 s)
Simulator ==
    [baseline_lap_time |-> Dec(985, 10),
     total_race_laps |-> SimRaceLaps,
     fuel_effect_per_lap |-> Dec(3, 100),
     traffic_variance |-> DefaultTrafficVariance]

\* the literals of _calculate_lap_time and _calculate_tire_degradation
PushLapGain == Dec(3, 10)
FuelSavingLoss == Dec(2, 10)
LapTimeFloor == Dec(95, 100)
CliffFactor == Dec(2, 10)

\* a degradation that stays linear past the cliff
LinearDegradation(tire_age, tire_chars) ==
    IF tire_age = 0 THEN DblZero
    ELSE DblMul(DblFromInt(tire_age), tire_chars.degradation_rate)

\* _calculate_tire_degradation, in percent
CalculateTireDegradation(tire_age, tire_chars) ==
    IF tire_age = 0 THEN DblZero
    ELSE IF tire_age > tire_chars.cliff_lap
    THEN DblAdd(DblMul(DblFromInt(tire_age), tire_chars.degradation_rate),
                DblMul(Pow15(tire_age - tire_chars.cliff_lap), CliffFactor))
    ELSE DblMul(DblFromInt(tire_age), tire_chars.degradation_rate)

\* _calculate_lap_time up to the traffic, lines 290-310: the terms are added
\* to lap_time one after the other, each sum rounded; lap_time -= 0.3 on a
\* push lap, then lap_time += 0.2 in fuel-saving mode
LapTimeBeforeTrafficAt(sim, tire_compound, tire_age, fuel_load, is_push_lap, fuel_saving) ==
    With(DblAdd(DblAdd(DblAdd(sim.baseline_lap_time,
                              CompoundCharacteristics(tire_compound).base_grip_advantage),
                       DblMul(sim.baseline_lap_time,
                              DblDivInt(CalculateTireDegradation(tire_age,
                                            CompoundCharacteristics(tire_compound)),
                                        100))),
                DblMul(DblFromInt(fuel_load), sim.fuel_effect_per_lap)),
         LAMBDA lap_time :
             IF is_push_lap /\ fuel_saving
             THEN DblAdd(DblSub(lap_time, PushLapGain), FuelSavingLoss)
             ELSE IF is_push_lap THEN DblSub(lap_time, PushLapGain)
             ELSE IF fuel_saving THEN DblAdd(lap_time, FuelSavingLoss)
             ELSE lap_time)

\* the same for the laps of a race of the simulator instance, computed once
LapTimeBeforeTrafficTabulated ==
    [tire_compound \in Compounds, tire_age \in 0..SimRaceLaps, fuel_load \in 1..SimRaceLaps, is_push_lap \in BOOLEAN, fuel_saving \in BOOLEAN |->
        LapTimeBeforeTrafficAt(Simulator, tire_compound, tire_age, fuel_load,
                               is_push_lap, fuel_saving)]

LapTimeBeforeTraffic(sim, tire_compound, tire_age, fuel_load, is_push_lap, fuel_saving) ==
    IF /\ sim = Simulator
       /\ <<tire_compound, tire_age, fuel_load, is_push_lap, fuel_saving>>
              \in DOMAIN LapTimeBeforeTrafficTabulated
    THEN LapTimeBeforeTrafficTabulated[tire_compound, tire_age, fuel_load,
                                       is_push_lap, fuel_saving]
    ELSE LapTimeBeforeTrafficAt(sim, tire_compound, tire_age, fuel_load,
                                is_push_lap, fuel_saving)

\* a lap time without the floor of line 316
UnclampedLapTime(sim, tire_compound, tire_age, fuel_load, is_push_lap, fuel_saving, traffic) ==
    DblAdd(LapTimeBeforeTraffic(sim, tire_compound, tire_age, fuel_load,
                                is_push_lap, fuel_saving),
           traffic)

\* _calculate_lap_time, given the traffic value drawn at line 313
CalculateLapTime(sim, tire_compound, tire_age, fuel_load, is_push_lap, fuel_saving, traffic) ==
    DblMax(DblAdd(LapTimeBeforeTraffic(sim, tire_compound, tire_age, fuel_load,
                                       is_push_lap, fuel_saving),
                  traffic),
           DblMul(sim.baseline_lap_time, LapTimeFloor))

\* _generate_lap_notes
GenerateLapNotes(tire_age, tire_chars, is_pit_lap) ==
    IF is_pit_lap THEN <<"PIT STOP - Fresh", tire_chars.compound>>
    ELSE IF tire_age = 1 THEN <<"Fresh", tire_chars.compound>>
    ELSE IF tire_age > tire_chars.cliff_lap
         THEN <<"CRITICAL: laps past cliff", tire_age - tire_chars.cliff_lap>>
    ELSE IF tire_age >= tire_chars.optimal_stint_length THEN <<"Tires worn">>
    ELSE IF tire_age < 5 THEN <<"Good tire performance">>
    ELSE <<"Managing tire wear">>

\* simulate_race, lines 154-162: the locals before the lap loop
RaceStart(sim, strategy) ==
    [lap |-> 0,
     cumulative_time |-> DblZero,
     current_compound |-> strategy.starting_compound,
     tire_age |-> 0,
     fuel_load |-> sim.total_race_laps,
     tire_usage |-> [c \in Compounds |-> 0],
     pit_stop_count |-> 0,
     lap_results |-> <<>>]

\* the end of an iteration of the lap loop, lines 181-219, from the traffic
\* drawn and the lap time calculated: the cumulative time (the pit loss added
\* first, then the lap time) and the LapResult
LapDone(st, r, lap, is_pit_lap, current_compound, tire_age, tire_chars, pit_stop_count, traffic, calculated, pit_loss) ==
    With(calculated,
         LAMBDA lap_time :
             With(DblAdd(DblAdd(st.cumulative_time, pit_loss), lap_time),
                  LAMBDA cumulative_time :
                      [st |-> [lap |-> lap,
                               cumulative_time |-> cumulative_time,
                               current_compound |-> current_compound,
                               tire_age |-> tire_age,
                               fuel_load |-> st.fuel_load - 1,
                               tire_usage |->
                                   [st.tire_usage EXCEPT ![current_compound] = @ + 1],
                               pit_stop_count |-> pit_stop_count,
                               lap_results |->
                                   Append(st.lap_results,
                                       [lap_number |-> lap,
                                        lap_time |-> lap_time,
                                        cumulative_time |-> cumulative_time,
                                        tire_compound |-> current_compound,
                                        tire_age |-> tire_age,
                                        tire_degradation |->
                                            CalculateTireDegradation(tire_age, tire_chars),
                                        position_estimate |-> 1,
                                        gap_to_leader |-> DblZero,
                                        is_pit_lap |-> is_pit_lap,
                                        fuel_load |-> st.fuel_load - 1,
                                        notes |-> GenerateLapNotes(tire_age, tire_chars,
                                                                   is_pit_lap),
                                        \* the local traffic of _calculate_lap_time,
                                        \* not a field of LapResult
                                        traffic |-> traffic])],
                       rng |-> NpRandomAdvance(r)]))

\* a lap loop body that keeps the tire age through a pit stop
RaceLapWornAtPit(sim, strategy, st, r) ==
    LET lap == st.lap + 1
        stops == SelectSeq(strategy.pit_stops, LAMBDA ps : ps.lap = lap)
        is_pit_lap == stops # <<>>
        current_compound == IF is_pit_lap THEN stops[1].new_compound
                            ELSE st.current_compound
        tire_age == st.tire_age + 1
        tire_chars == CompoundCharacteristics(current_compound)
    IN  With(NpRandomUniform(r, DblNeg(sim.traffic_variance), sim.traffic_variance),
             LAMBDA traffic :
                 LapDone(st, r, lap, is_pit_lap, current_compound, tire_age, tire_chars,
                         st.pit_stop_count + (IF is_pit_lap THEN 1 ELSE 0),
                         traffic,
                         CalculateLapTime(sim, current_compound, tire_age, st.fuel_load,
                                          InList(lap, strategy.push_laps),
                                          strategy.fuel_saving_mode, traffic),
                         IF is_pit_lap THEN stops[1].pit_loss_time ELSE DblZero))

\* a lap loop body that counts every pit stop listed for the lap
RaceLapCountingEachStop(sim, strategy, st, r) ==
    LET lap == st.lap + 1
        stops == SelectSeq(strategy.pit_stops, LAMBDA ps : ps.lap = lap)
        is_pit_lap == stops # <<>>
        current_compound == IF is_pit_lap THEN stops[1].new_compound
                            ELSE st.current_compound
        tire_age == IF is_pit_lap THEN 0 ELSE st.tire_age + 1
        tire_chars == CompoundCharacteristics(current_compound)
    IN  With(NpRandomUniform(r, DblNeg(sim.traffic_variance), sim.traffic_variance),
             LAMBDA traffic :
                 LapDone(st, r, lap, is_pit_lap, current_compound, tire_age, tire_chars,
                         st.pit_stop_count + Len(stops),
                         traffic,
                         CalculateLapTime(sim, current_compound, tire_age, st.fuel_load,
                                          InList(lap, strategy.push_laps),
                                          strategy.fuel_saving_mode, traffic),
                         IF is_pit_lap THEN stops[1].pit_loss_time ELSE DblZero))

\* one iteration of the lap loop (lines 164-220) from locals st, with the
\* generator in state r: the new locals and the generator's new state
RaceLap(sim, strategy, st, r) ==
    LET lap == st.lap + 1
        stops == SelectSeq(strategy.pit_stops, LAMBDA ps : ps.lap = lap)
        is_pit_lap == stops # <<>>
        current_compound == IF is_pit_lap THEN stops[1].new_compound
                            ELSE st.current_compound
        tire_age == IF is_pit_lap THEN 0 ELSE st.tire_age + 1
        tire_chars == CompoundCharacteristics(current_compound)
    IN  With(NpRandomUniform(r, DblNeg(sim.traffic_variance), sim.traffic_variance),
             LAMBDA traffic :
                 LapDone(st, r, lap, is_pit_lap, current_compound, tire_age, tire_chars,
                         st.pit_stop_count + (IF is_pit_lap THEN 1 ELSE 0),
                         traffic,
                         CalculateLapTime(sim, current_compound, tire_age, st.fuel_load,
                                          InList(lap, strategy.push_laps),
                                          strategy.fuel_saving_mode, traffic),
                         IF is_pit_lap THEN stops[1].pit_loss_time ELSE DblZero))

\* simulate_race, lines 222-238: the statistics and the returned result.
\* np.min of an empty list (every lap a pit lap, or no lap) raises ValueError.
RaceResult(strategy, st) ==
    LET timed == SelectSeq(st.lap_results, LAMBDA lr : ~lr.is_pit_lap)
        lap_times == [i \in 1..Len(timed) |-> timed[i].lap_time]
    IN  IF lap_times = <<>>
        THEN [raised |-> "ValueError", strategy |-> strategy,
              lap_results |-> st.lap_results, total_time |-> st.cumulative_time]
        ELSE [raised |-> "none",
              strategy |-> strategy,
              lap_results |-> st.lap_results,
              total_time |-> st.cumulative_time,
              final_position |-> 1,
              total_pit_stops |-> st.pit_stop_count,
              average_lap_time |-> NpMean(lap_times),
              fastest_lap |->
                  CHOOSE x \in {lap_times[i] : i \in 1..Len(lap_times)} :
                      \A j \in 1..Len(lap_times) : DblLeq(x, lap_times[j]),
              slowest_lap |->
                  CHOOSE x \in {lap_times[i] : i \in 1..Len(lap_times)} :
                      \A j \in 1..Len(lap_times) : DblLeq(lap_times[j], x),
              tire_usage_summary |-> st.tire_usage]

\* random_seed is <<>> for None and <<s>> for the seed s
\* simulate_race, lines 151-152: the generator after the optional seeding
SeededStart(random_seed, r) ==
    IF random_seed # <<>> THEN NpRandomSeed(random_seed[1]) ELSE r

\* the iterations of the lap loop from the locals and generator state `at`
\* up to lap `to`, the first half of them before the second
RECURSIVE RaceLaps(_, _, _, _)
RaceLaps(sim, strategy, at, to) ==
    IF at.st.lap >= to THEN at
    ELSE IF at.st.lap + 1 = to THEN RaceLap(sim, strategy, at.st, at.rng)
    ELSE LET mid == (at.st.lap + to) \div 2
             half == RaceLaps(sim, strategy, at, mid)
         IN  IF half.st.lap # mid THEN half ELSE RaceLaps(sim, strategy, half, to)

\* the lap loop, for lap in range(1, total_race_laps + 1)
RaceLoop(sim, strategy, st, r) ==
    RaceLaps(sim, strategy, [st |-> st, rng |-> r], sim.total_race_laps)

\* simulate_race run without interruption with the generator in state r:
\* the result and the generator's state afterwards
SimulateRace(sim, strategy, random_seed, r) ==
    With(RaceLoop(sim, strategy, RaceStart(sim, strategy), SeededStart(random_seed, r)),
         LAMBDA end : [ret |-> RaceResult(strategy, end.st), rng |-> end.rng])

\* an insertion that ranks the slowest result first
RECURSIVE InsertSlowestFirst(_, _)
InsertSlowestFirst(sorted, x) ==
    IF sorted = <<>> THEN <<x>>
    ELSE IF DblLeq(x.total_time, Head(sorted).total_time)
         THEN <<Head(sorted)>> \o InsertSlowestFirst(Tail(sorted), x)
         ELSE <<x>> \o sorted

\* results.sort(key=total_time): a stable ascending sort
RECURSIVE InsertByTotalTime(_, _)
InsertByTotalTime(sorted, x) ==
    IF sorted = <<>> THEN <<x>>
    ELSE IF DblLeq(Head(sorted).total_time, x.total_time)
         THEN <<Head(sorted)>> \o InsertByTotalTime(Tail(sorted), x)
         ELSE <<x>> \o sorted

RECURSIVE SortByTotalTime(_, _)
SortByTotalTime(results, i) ==
    IF i = 0 THEN <<>>
    ELSE InsertByTotalTime(SortByTotalTime(results, i - 1), results[i])

\* simulate_multiple_strategies, lines 255-259: one simulate_race per strategy,
\* each handed the same random_seed; an exception of simulate_race passes through
RECURSIVE SimulateEach(_, _, _, _, _, _)
SimulateEach(sim, strategies, random_seed, i, results, r) ==
    IF i > Len(strategies) THEN [raised |-> "none", results |-> results, rng |-> r]
    ELSE With(SimulateRace(sim, strategies[i], random_seed, r),
              LAMBDA run :
                  IF run.ret.raised # "none"
                  THEN [raised |-> run.ret.raised, results |-> <<>>, rng |-> run.rng]
                  ELSE SimulateEach(sim, strategies, random_seed, i + 1,
                                    Append(results, run.ret), run.rng))

\* simulate_multiple_strategies, lines 261-277: rank, positions, gaps to leader
RankResults(results) ==
    LET sorted == SortByTotalTime(results, Len(results))
    IN  [i \in 1..Len(sorted) |->
            [sorted[i] EXCEPT
                !.final_position = i,
                !.lap_results =
                    [k \in 1..Len(sorted[i].lap_results) |->
                        [sorted[i].lap_results[k] EXCEPT
                            !.position_estimate = i,
                            !.gap_to_leader =
                                DblSub(sorted[i].lap_results[k].cumulative_time,
                                       sorted[1].lap_results[k].cumulative_time)]]]]

SimulateMultipleStrategies(sim, strategies, random_seed, r) ==
    With(SimulateEach(sim, strategies, random_seed, 1, <<>>, r),
         LAMBDA each :
             IF each.raised # "none"
             THEN [ret |-> [raised |-> each.raised, results |-> <<>>], rng |-> each.rng]
             ELSE [ret |-> [raised |-> "none", results |-> RankResults(each.results)],
                   rng |-> each.rng])

\* the strategies the simulator is driven with
NoStop ==
    [name |-> "no_stop", starting_compound |-> "medium", pit_stops |-> <<>>,
     fuel_saving_mode |-> FALSE, push_laps |-> <<>>]
OneStop ==
    [name |-> "one_stop", starting_compound |-> "soft",
     pit_stops |-> <<PitStop(2, "medium")>>,
     fuel_saving_mode |-> FALSE, push_laps |-> <<>>]
PushSaver ==
    [name |-> "push_saver", starting_compound |-> "hard", pit_stops |-> <<>>,
     fuel_saving_mode |-> TRUE, push_laps |-> <<1>>]

Strategies == {NoStop, OneStop, PushSaver}

\* two strategies on hard tires without a stop that differ in the lap pushed
PushFirst ==
    [name |-> "push1", starting_compound |-> "hard", pit_stops |-> <<>>,
     fuel_saving_mode |-> FALSE, push_laps |-> <<1>>]
PushLast ==
    [name |-> "push3", starting_compound |-> "hard", pit_stops |-> <<>>,
     fuel_saving_mode |-> FALSE, push_laps |-> <<SimRaceLaps>>]

\* the lists simulate_multiple_strategies is driven with
StrategyLists ==
    {<<NoStop, OneStop>>, <<PushSaver, NoStop>>, <<OneStop, OneStop>>,
     <<NoStop, OneStop, PushSaver>>, <<PushFirst, PushLast>>}

ExplicitSeeds == {<<42>>, <<0>>}
SeedArgs == ExplicitSeeds \cup {<<>>}


\* the calls that do not seed the generator are driven while it has given
\* fewer than MaxDraws doubles since it was last seeded
DrawsLeft(state, random_seed, n) == random_seed # <<>> \/ state.draws + n <= MaxDraws

\* the process-wide generator starts in a state nobody chose: here, one of
\* the states a seed outside the calls' seeds leaves it in
InitSim ==
    /\ call = NoCall
    /\ model = Unfitted
    /\ degradation_df = NoDf
    /\ rng \in {NpRandomSeed(0), NpRandomSeed(50)}
    /\ sims = <<>>
    /\ sim_log = {}

CallSimulateRace ==
    /\ call = NoCall
    /\ \E strategy \in Strategies, seed \in SeedArgs :
           /\ DrawsLeft(rng, seed, Simulator.total_race_laps)
           /\ \E run \in {SimulateRace(Simulator, strategy, seed, rng)} :
               /\ call' = [op |-> "simulate_race",
                           args |-> [strategy |-> strategy, random_seed |-> seed],
                           ret |-> run.ret]
               /\ rng' = run.rng
    /\ UNCHANGED <<model, degradation_df, sims, sim_log>>

CallSimulateMultipleStrategies ==
    /\ call = NoCall
    /\ \E strategies \in StrategyLists, seed \in SeedArgs :
           /\ DrawsLeft(rng, seed, Len(strategies) * Simulator.total_race_laps)
           /\ \E run \in {SimulateMultipleStrategies(Simulator, strategies, seed, rng)} :
               /\ call' = [op |-> "simulate_multiple_strategies",
                           args |-> [strategies |-> strategies, random_seed |-> seed],
                           ret |-> run.ret]
               /\ rng' = run.rng
    /\ UNCHANGED <<model, degradation_df, sims, sim_log>>

\* the caller takes the result; the first result of each seeded simulate_race
\* call is remembered, to compare later calls with it
SimReturn ==
    /\ call # NoCall
    /\ call' = NoCall
    /\ sim_log' =
           IF /\ call.op = "simulate_race"
              /\ call.args.random_seed # <<>>
              /\ \A e \in sim_log : e.args # call.args
           THEN sim_log \cup {[args |-> call.args, ret |-> call.ret]}
           ELSE sim_log
    /\ UNCHANGED <<model, degradation_df, rng, sims>>

NextSim == CallSimulateRace \/ CallSimulateMultipleStrategies \/ SimReturn

SpecSim == InitSim /\ [][NextSim]_vars

\* ------------------------------------------------ concurrent simulate_race
Workers == {1, 2}

InitSimConc ==
    /\ call = NoCall
    /\ model = Unfitted
    /\ degradation_df = NoDf
    /\ rng \in {NpRandomSeed(0), NpRandomSeed(50)}
    /\ sims = [w \in Workers |-> [pc |-> "idle"]]
    /\ sim_log = {}

\* a worker enters simulate_race: the optional seeding and the locals
SimStart(w) ==
    /\ sims[w].pc = "idle"
    /\ \E strategy \in Strategies, seed \in ExplicitSeeds :
           /\ sims' = [sims EXCEPT ![w] =
                          [pc |-> "running", strategy |-> strategy,
                           random_seed |-> seed,
                           st |-> RaceStart(Simulator, strategy)]]
           /\ rng' = SeededStart(seed, rng)
    /\ UNCHANGED <<call, model, degradation_df, sim_log>>

\* a worker runs one iteration of its lap loop, drawing from the shared generator
SimLapStep(w) ==
    /\ sims[w].pc = "running"
    /\ sims[w].st.lap < Simulator.total_race_laps
    /\ LET next == RaceLap(Simulator, sims[w].strategy, sims[w].st, rng)
       IN  /\ sims' = [sims EXCEPT ![w].st = next.st]
           /\ rng' = next.rng
    /\ UNCHANGED <<call, model, degradation_df, sim_log>>

\* a worker leaves the loop and returns its result
SimFinish(w) ==
    /\ sims[w].pc = "running"
    /\ sims[w].st.lap >= Simulator.total_race_laps
    /\ sims' = [sims EXCEPT ![w] =
                   [pc |-> "done", strategy |-> sims[w].strategy,
                    random_seed |-> sims[w].random_seed,
                    ret |-> RaceResult(sims[w].strategy, sims[w].st)]]
    /\ UNCHANGED <<call, model, degradation_df, rng, sim_log>>

NextSimConc == \E w \in Workers : SimStart(w) \/ SimLapStep(w) \/ SimFinish(w)

SpecSimConc == InitSimConc /\ [][NextSimConc]_vars

\* ------------------------------------------------ claims on the simulator
LapTimes(ret) == [k \in 1..Len(ret.lap_results) |-> ret.lap_results[k].lap_time]

\* C9: two simulate_race calls that run concurrently, each with an explicit
\* random_seed, each return the lap times and total_time the same call returns
\* when run alone with that seed.
C9_ConcurrentRunsAsAlone ==
    \A w \in Workers :
        sims[w].pc = "done" =>
            LET alone == SimulateRace(Simulator, sims[w].strategy,
                                      sims[w].random_seed, NpRandomSeed(0)).ret
            IN  /\ LapTimes(sims[w].ret) = LapTimes(alone)
                /\ sims[w].ret.total_time = alone.total_time

IsSeededRace == call.op = "simulate_race" /\ call.args.random_seed # <<>>

\* an earlier call with the same strategy and seed returned the same laps
SameAsEarlierCalls ==
    IsSeededRace =>
        \A e \in sim_log :
            e.args = call.args =>
                /\ e.ret.lap_results = call.ret.lap_results
                /\ e.ret.total_time = call.ret.total_time

\* the traffic drawn for lap k is the same in every result of the comparison
SameTrafficPerLap ==
    \A i, j \in 1..Len(call.ret.results) :
        \A k \in 1..Len(call.ret.results[i].lap_results) :
            call.ret.results[i].lap_results[k].traffic
                = call.ret.results[j].lap_results[k].traffic

IsComparison == call.op = "simulate_multiple_strategies" /\ call.ret.raised = "none"

\* C10: two simulate_race calls with the same strategy and the same non-null
\* seed return identical lap_results and total_time whatever ran in between,
\* and inside simulate_multiple_strategies every strategy is simulated from the
\* same seed, so the traffic drawn for lap i is the same for every compared
\* strategy.  A comparison called with random_seed=None seeds nothing (lines
\* 151-152) and its strategies continue the process-wide generator.
C10_SameTrafficAlways ==
    /\ SameAsEarlierCalls
    /\ IsComparison => SameTrafficPerLap

\* ============================================ calculate_undercut_opportunity
\* the bound of the tire ages the undercut analysis is driven with
MaxUndercutAge == 5

\* baseline_laptime * (1 + degradation / 100), degradation in percent
DegradedLapTime(baseline_laptime, degradation) ==
    DblMul(baseline_laptime, DblAdd(DblFromInt(1), DblDivInt(degradation, 100)))

\* a competitor lap time that leaves out the coming lap's wear
CompetitorLapTimeNow(competitor_tire_age, degradation_rate, baseline_laptime) ==
    DegradedLapTime(baseline_laptime,
                    DblMul(degradation_rate, DblFromInt(competitor_tire_age)))

\* lines 291-292: the competitor's in-lap, one lap older than now
CompetitorInLapTime(competitor_tire_age, degradation_rate, baseline_laptime) ==
    DegradedLapTime(baseline_laptime,
                    DblMul(degradation_rate, DblFromInt(competitor_tire_age + 1)))

\* lines 300-305: old_time - fresh_time of one of the next laps
LapAdvantage(lap_offset, competitor_tire_age, degradation_rate, baseline_laptime) ==
    DblSub(DegradedLapTime(baseline_laptime,
               DblMul(degradation_rate, DblFromInt(competitor_tire_age + lap_offset))),
           DegradedLapTime(baseline_laptime,
               DblMul(degradation_rate, DblFromInt(lap_offset))))

\* lines 298-305: the fresh-tire advantage, added up lap by lap over the next
\* 3 laps (range(1, 4)) from the integer 0
FreshTireAdvantage(competitor_tire_age, degradation_rate, baseline_laptime) ==
    DblAdd(DblAdd(DblAdd(DblZero,
                         LapAdvantage(1, competitor_tire_age, degradation_rate,
                                      baseline_laptime)),
                  LapAdvantage(2, competitor_tire_age, degradation_rate,
                               baseline_laptime)),
           LapAdvantage(3, competitor_tire_age, degradation_rate, baseline_laptime))

\* lines 288, 295 and 308: the out-lap, the gain on the swap lap and the
\* total potential, from the competitor's in-lap and the fresh-tire advantage
UndercutTimesFrom(competitor_in_lap_time, fresh_tire_advantage, baseline_laptime) ==
    With(DblAdd(baseline_laptime, DblDivInt(TypicalPitTime, 2)),
         LAMBDA out_lap_time :
             With(DblSub(competitor_in_lap_time, out_lap_time),
                  LAMBDA undercut_gain :
                      [out_lap_time |-> out_lap_time,
                       competitor_in_lap_time |-> competitor_in_lap_time,
                       undercut_gain |-> undercut_gain,
                       fresh_tire_advantage |-> fresh_tire_advantage,
                       total_undercut_potential |->
                           DblAdd(undercut_gain, fresh_tire_advantage)]))

\* lines 288-308: the lap times of the analysis, which depend on the
\* competitor's tires, the rate and the baseline only
UndercutTimesAt(competitor_tire_age, degradation_rate, baseline_laptime) ==
    UndercutTimesFrom(
        CompetitorInLapTime(competitor_tire_age, degradation_rate, baseline_laptime),
        FreshTireAdvantage(competitor_tire_age, degradation_rate, baseline_laptime),
        baseline_laptime)

\* the analysis for the driven competitor tire ages, rates and baselines,
\* computed once
UndercutTimesTabulated ==
    [c \in 0..MaxUndercutAge, r \in RateFloats, b \in BaselineFloats |->
        UndercutTimesAt(c, r, b)]

UndercutTimes(competitor_tire_age, degradation_rate, baseline_laptime) ==
    IF <<competitor_tire_age, degradation_rate, baseline_laptime>>
           \in DOMAIN UndercutTimesTabulated
    THEN UndercutTimesTabulated[competitor_tire_age, degradation_rate, baseline_laptime]
    ELSE UndercutTimesAt(competitor_tire_age, degradation_rate, baseline_laptime)

\* lines 310-319: the returned dict from the lap times and the gap; abs() of
\* the gap in viability and margin, the signed gap in the recommendation.
\* out_lap_time, competitor_in_lap_time, undercut_gain and fresh_tire_advantage
\* are locals of the code, kept in the returned record to be looked at.
UndercutVerdict(t, gap_to_competitor) ==
    With(DblLess(DblAbs(gap_to_competitor), t.total_undercut_potential),
         LAMBDA viable :
             [raised |-> "none",
              undercut_viable |-> viable,
              time_gain_potential |-> t.total_undercut_potential,
              gap_required |-> DblAbs(gap_to_competitor),
              advantage_margin |->
                  DblSub(t.total_undercut_potential, DblAbs(gap_to_competitor)),
              recommendation |->
                  IF viable /\ DblLess(DblAdd(gap_to_competitor, DblFromInt(2)),
                                       t.total_undercut_potential)
                  THEN "UNDERCUT_NOW" ELSE "MONITOR",
              out_lap_time |-> t.out_lap_time,
              competitor_in_lap_time |-> t.competitor_in_lap_time,
              undercut_gain |-> t.undercut_gain,
              fresh_tire_advantage |-> t.fresh_tire_advantage])

\* an analysis that takes the in-lap from the age of the own tires
UndercutOpportunityOwnTires(a) ==
    UndercutVerdict(
        UndercutTimesFrom(
            CompetitorInLapTime(a.own_tire_age, Dec(a.degradation_rate, 100),
                                Dec(a.baseline_laptime, 10)),
            FreshTireAdvantage(a.competitor_tire_age, Dec(a.degradation_rate, 100),
                               Dec(a.baseline_laptime, 10)),
            Dec(a.baseline_laptime, 10)),
        Dec(a.gap_to_competitor, 10))

\* calculate_undercut_opportunity; the arguments are the floats nearest to
\* gap_to_competitor / 10 s, degradation_rate / 100 % and baseline_laptime / 10 s
UndercutOpportunity(a) ==
    UndercutVerdict(UndercutTimes(a.competitor_tire_age,
                                  Dec(a.degradation_rate, 100),
                                  Dec(a.baseline_laptime, 10)),
                    Dec(a.gap_to_competitor, 10))

\* the worked example: own tires 12 laps old, competitor's 10, 3.5 s ahead,
\* 0.2 %/lap, 98.5 s
ExampleUndercutArgs ==
    [current_lap |-> 15, own_tire_age |-> 12, competitor_tire_age |-> 10,
     gap_to_competitor |-> 35, degradation_rate |-> 20, baseline_laptime |-> 985]

\* gaps in tenths of a second, ahead (positive) and behind (negative); with
\* 1.5 %/lap and 120.0 s the total potential is 0.9 s on competitor tires 3
\* laps old and 8.1 s = 6.1 s + 2 s on tires 4 laps old, up to rounding
Gaps == {-35, -10, -9, 0, 9, 10, 35, 61, 81}

UndercutArgs ==
    { [current_lap |-> 15, own_tire_age |-> o, competitor_tire_age |-> c,
       gap_to_competitor |-> g, degradation_rate |-> r, baseline_laptime |-> b] :
        o \in {0, MaxUndercutAge}, c \in 0..MaxUndercutAge, g \in Gaps,
        r \in Rates, b \in Baselines \cup NonPositiveBaselines }
    \cup {ExampleUndercutArgs}

CallCalculateUndercutOpportunity ==
    /\ call = NoCall
    /\ \E a \in UndercutArgs :
           call' = [op |-> "calculate_undercut_opportunity", args |-> a,
                    ret |-> UndercutOpportunity(a)]
    /\ UNCHANGED <<model, degradation_df, rng, sims, sim_log>>

\* calculate_pit_window and simulate_race_to_finish handed a baseline that is
\* not a lap time
CallWithNonPositiveBaseline ==
    /\ call = NoCall
    /\ \E b \in NonPositiveBaselines :
           \/ \E a \in ValidPitArgs :
                  LET args == [a EXCEPT !.baseline_laptime = b]
                  IN  call' = [op |-> "calculate_pit_window", args |-> args,
                               ret |-> PitWindow(args)]
           \/ \E a \in {x \in ValidRaceToFinishArgs : x.pit_laps = <<>>} :
                  LET args == [a EXCEPT !.baseline_laptime = b]
                  IN  call' = [op |-> "simulate_race_to_finish", args |-> args,
                               ret |-> SimulateRaceToFinish(args)]
    /\ UNCHANGED <<model, degradation_df, rng, sims, sim_log>>

NextUndercut == CallCalculateUndercutOpportunity \/ CallWithNonPositiveBaseline \/ Return

SpecUndercut == InitPit /\ [][NextUndercut]_vars

\* --------------------------------------------------- claims on the undercut
IsUndercutCall == call.op = "calculate_undercut_opportunity"

\* C14: for every signed gap, undercut_viable is true exactly when the total
\* potential exceeds |gap|, advantage_margin is total potential - |gap|, and
\* the recommendation is UNDERCUT_NOW exactly when the undercut is viable and
\* advantage_margin > 2 s, otherwise MONITOR.
C14_RecommendationFromMargin ==
    IsUndercutCall =>
        LET ret == call.ret
            gap == Dec(call.args.gap_to_competitor, 10)
        IN  /\ ret.undercut_viable <=> DblLess(DblAbs(gap), ret.time_gain_potential)
            /\ ret.advantage_margin = DblSub(ret.time_gain_potential, DblAbs(gap))
            /\ ret.recommendation \in {"UNDERCUT_NOW", "MONITOR"}
            /\ ret.recommendation = "UNDERCUT_NOW"
                   <=> (ret.undercut_viable
                        /\ DblLess(DblFromInt(2), ret.advantage_margin))

IsExampleUndercut == IsUndercutCall /\ call.args = ExampleUndercutArgs

\* C15: for the example call the out-lap is 121.0 s, the competitor's in-lap
\* is 98.5 * (1 + 0.2 * 11 / 100), about 100.67 s, the undercut gain is
\* negative, about -20.3 s, the fresh-tire advantage over 3 laps is positive
\* and smaller than that loss, the total potential is negative, and the result
\* is not viable, MONITOR.
C15_ExampleUndercut ==
    IsExampleUndercut =>
        LET ret == call.ret
        IN  /\ ret.out_lap_time = DblFromInt(121)
            /\ ret.competitor_in_lap_time
                   = DblMul(Dec(985, 10),
                            DblAdd(DblFromInt(1),
                                   DblDivInt(DblMul(Dec(2, 10), DblFromInt(11)), 100)))
            /\ DblLess(Dec(10066, 100), ret.competitor_in_lap_time)
            /\ DblLess(ret.competitor_in_lap_time, Dec(10068, 100))
            /\ ret.undercut_gain = DblSub(ret.competitor_in_lap_time, DblFromInt(121))
            /\ DblLess(ret.undercut_gain, DblZero)
            /\ DblLess(Dec(-204, 10), ret.undercut_gain)
            /\ DblLess(ret.undercut_gain, Dec(-203, 10))
            /\ DblLess(DblZero, ret.fresh_tire_advantage)
            /\ DblLess(ret.fresh_tire_advantage, DblNeg(ret.undercut_gain))
            /\ DblLess(ret.time_gain_potential, DblZero)
            /\ ~ret.undercut_viable
            /\ ret.recommendation = "MONITOR"

\* the example call has returned
C15_Witness ==
    /\ IsExampleUndercut
    /\ call.ret.raised = "none"
    /\ call.ret.time_gain_potential
           = DblAdd(call.ret.undercut_gain, call.ret.fresh_tire_advantage)

\* C16: a baseline lap time that is not strictly positive is rejected with an
\* error by calculate_pit_window, calculate_undercut_opportunity and
\* simulate_race_to_finish; no result is returned.
C16_NonPositiveBaselineRejected ==
    ( /\ call.op \in {"calculate_pit_window", "calculate_undercut_opportunity",
                      "simulate_race_to_finish"}
      /\ call.args.baseline_laptime <= 0 )
        => call.ret.raised # "none"

\* ================================== RaceSimulator: the per-lap calculations
\* tire ages reach past the latest cliff (hard, lap 25); race distances reach
\* the first one at which int(laps * 0.67) leaves floor(2 * laps / 3)
MaxSimTireAge == 27
MaxDefaultLaps == 100

\* a late stop that is not held at lap 18
LateStopLapUncapped(total_race_laps) == (65 * total_race_laps) \div 100

\* an early stop that is always on lap 12
EarlyStopLapAt12(total_race_laps) == 12

\* generate_default_strategies, the pit laps: // is floor division and int()
\* truncates the float product; for every race distance driven here
\* int(laps * 0.65) and int(laps * 0.67) are the floors of laps * 65 / 100 and
\* laps * 67 / 100
EarlyStopLap(total_race_laps) == Min(12, total_race_laps \div 2)
LateStopLap(total_race_laps) == Min(18, (65 * total_race_laps) \div 100)
FirstStopLap(total_race_laps) == total_race_laps \div 3
SecondStopLap(total_race_laps) == (67 * total_race_laps) \div 100
MidStopLap(total_race_laps) == total_race_laps \div 2

RaceStrategy(name, starting_compound, pit_stops) ==
    [name |-> name, starting_compound |-> starting_compound, pit_stops |-> pit_stops,
     fuel_saving_mode |-> FALSE, push_laps |-> <<>>]

GenerateDefaultStrategies(total_race_laps) ==
    (IF total_race_laps <= 25
     THEN <<RaceStrategy("no_stop", "medium", <<>>)>> ELSE <<>>)
    \o <<RaceStrategy("one_stop_early", "soft",
                      <<PitStop(EarlyStopLap(total_race_laps), "medium")>>),
         RaceStrategy("one_stop_late", "medium",
                      <<PitStop(LateStopLap(total_race_laps), "soft")>>)>>
    \o (IF total_race_laps > 30
        THEN <<RaceStrategy("two_stop_aggressive", "soft",
                            <<PitStop(FirstStopLap(total_race_laps), "soft"),
                              PitStop(SecondStopLap(total_race_laps), "soft")>>)>>
        ELSE <<>>)
    \o <<RaceStrategy("conservative", "medium",
                      <<PitStop(MidStopLap(total_race_laps), "hard")>>)>>

\* simulators the lap-time calculation is driven with: the default and a
\* negative fuel effect, the default traffic variance and one of 5 s
LapTimeSimulators ==
    { [baseline_lap_time |-> b, total_race_laps |-> SimRaceLaps,
       fuel_effect_per_lap |-> f, traffic_variance |-> v] :
        b \in {Dec(x, 10) : x \in Baselines}, f \in {Dec(3, 100), DblFromInt(-1)},
        v \in {Dec(2, 10), DblFromInt(5)} }

CallCalculateTireDegradation ==
    /\ call = NoCall
    /\ \E compound \in Compounds, tire_age \in 0..MaxSimTireAge :
           call' = [op |-> "_calculate_tire_degradation",
                    args |-> [compound |-> compound, tire_age |-> tire_age],
                    ret |-> [raised |-> "none",
                             degradation |->
                                 CalculateTireDegradation(tire_age,
                                     CompoundCharacteristics(compound))]]
    /\ UNCHANGED <<model, degradation_df, rng, sims, sim_log>>

\* _calculate_lap_time draws the traffic from the process-wide generator
CallCalculateLapTime ==
    /\ call = NoCall
    /\ DrawsLeft(rng, <<>>, 1)
    /\ \E sim \in LapTimeSimulators, compound \in Compounds,
          tire_age \in {0, 1, MaxSimTireAge}, fuel_load \in {0, SimRaceLaps},
          is_push_lap \in BOOLEAN, fuel_saving \in BOOLEAN :
           LET traffic == NpRandomUniform(rng, DblNeg(sim.traffic_variance),
                                          sim.traffic_variance)
           IN  call' = [op |-> "_calculate_lap_time",
                        args |-> [sim |-> sim, tire_compound |-> compound,
                                  tire_age |-> tire_age, fuel_load |-> fuel_load,
                                  is_push_lap |-> is_push_lap,
                                  fuel_saving |-> fuel_saving],
                        ret |-> [raised |-> "none",
                                 traffic |-> traffic,
                                 lap_time |->
                                     CalculateLapTime(sim, compound, tire_age, fuel_load,
                                                      is_push_lap, fuel_saving, traffic)]]
    /\ rng' = NpRandomAdvance(rng)
    /\ UNCHANGED <<model, degradation_df, sims, sim_log>>

CallGenerateDefaultStrategies ==
    /\ call = NoCall
    /\ \E total_race_laps \in 1..MaxDefaultLaps :
           call' = [op |-> "generate_default_strategies",
                    args |-> [total_race_laps |-> total_race_laps],
                    ret |-> [raised |-> "none",
                             strategies |-> GenerateDefaultStrategies(total_race_laps)]]
    /\ UNCHANGED <<model, degradation_df, rng, sims, sim_log>>

NextCalc ==
    \/ CallCalculateTireDegradation
    \/ CallCalculateLapTime
    \/ CallGenerateDefaultStrategies
    \/ Return

SpecCalc == InitSim /\ [][NextCalc]_vars

\* generate_default_strategies alone, for the claims that simulate what it returns
NextDefaults == CallGenerateDefaultStrategies \/ Return

SpecDefaults == InitPit /\ [][NextDefaults]_vars

\* -------------------------------------- claims on the per-lap calculations
\* C11: for each compound and every tire age >= 0 the degradation is exactly
\* age * decay_rate when age <= cliff_lap and strictly greater than
\* age * decay_rate when age > cliff_lap.
C11_LinearUntilCliff ==
    call.op = "_calculate_tire_degradation" =>
        LET chars == CompoundCharacteristics(call.args.compound)
            age == call.args.tire_age
        IN  /\ age <= chars.cliff_lap
                   => call.ret.degradation
                          = DblMul(DblFromInt(age), chars.degradation_rate)
            /\ age > chars.cliff_lap
                   => DblLess(DblMul(DblFromInt(age), chars.degradation_rate),
                              call.ret.degradation)

\* the degradation of a hard tire two laps past its cliff (lap 25) has been
\* computed: 27 * 0.08 plus the cliff penalty
C11_Witness ==
    /\ call.op = "_calculate_tire_degradation"
    /\ call.args.compound = "hard"
    /\ call.args.tire_age = 27
    /\ call.ret.degradation
           = DblAdd(DblMul(DblFromInt(27), Dec(8, 100)), DblMul(Pow15(2), CliffFactor))
    /\ DblLess(Dec(56, 100), DblMul(Pow15(2), CliffFactor))
    /\ DblLess(DblMul(Pow15(2), CliffFactor), Dec(57, 100))

\* C13: every lap time is at least 0.95 * baseline_lap_time, for any compound
\* and tire age, push laps, fuel saving, any fuel effect and any traffic draw.
C13_LapTimeFloor ==
    call.op = "_calculate_lap_time" =>
        DblLeq(DblMul(call.args.sim.baseline_lap_time, LapTimeFloor), call.ret.lap_time)

\* a push lap on fresh soft tires in negative traffic of more than 2 s, with a
\* negative fuel effect: the computed time falls below the floor, and the
\* floor is returned
C13_Witness ==
    /\ call.op = "_calculate_lap_time"
    /\ call.args.is_push_lap
    /\ call.args.tire_compound = "soft"
    /\ DblLess(call.ret.traffic, DblFromInt(-2))
    /\ call.ret.lap_time = DblMul(call.args.sim.baseline_lap_time, LapTimeFloor)
    /\ DblLess(UnclampedLapTime(call.args.sim, call.args.tire_compound,
                               call.args.tire_age, call.args.fuel_load,
                               call.args.is_push_lap, call.args.fuel_saving,
                               call.ret.traffic),
              call.ret.lap_time)

IsDefaultStrategiesCall == call.op = "generate_default_strategies"

\* the default strategies for a race distance, with the second stop of
\* two_stop_aggressive at the lap given
DefaultStrategiesWith(laps, second_stop) ==
    (IF laps <= 25 THEN <<RaceStrategy("no_stop", "medium", <<>>)>> ELSE <<>>)
    \o <<RaceStrategy("one_stop_early", "soft",
                      <<PitStop(Min(12, laps \div 2), "medium")>>),
         RaceStrategy("one_stop_late", "medium",
                      <<PitStop(Min(18, (65 * laps) \div 100), "soft")>>)>>
    \o (IF laps > 30
        THEN <<RaceStrategy("two_stop_aggressive", "soft",
                            <<PitStop(laps \div 3, "soft"),
                              PitStop(second_stop, "soft")>>)>>
        ELSE <<>>)
    \o <<RaceStrategy("conservative", "medium", <<PitStop(laps \div 2, "hard")>>)>>

\* C18 as stated: the strategies, in order, are no_stop iff laps <= 25,
\* one_stop_early (min(12, laps/2)), one_stop_late (min(18, 0.65*laps)),
\* two_stop_aggressive iff laps > 30 with stops at 1/3 and at 2/3 of the race
\* distance, and conservative (half distance); lap numbers rounded down.
C18_StopsAtThirds ==
    IsDefaultStrategiesCall =>
        LET laps == call.args.total_race_laps
        IN  call.ret.strategies = DefaultStrategiesWith(laps, (2 * laps) \div 3)

\* C18 amended: the same, with the second stop of two_stop_aggressive at lap
\* int(0.67 * laps), which is floor(2 * laps / 3) for every distance below 100
\* laps and one lap later at 100 laps.
C18_SecondStopAt67Percent ==
    IsDefaultStrategiesCall =>
        LET laps == call.args.total_race_laps
        IN  /\ call.ret.strategies = DefaultStrategiesWith(laps, (67 * laps) \div 100)
            /\ laps < 100 => (67 * laps) \div 100 = (2 * laps) \div 3
            /\ laps = 100 => (67 * laps) \div 100 = (2 * laps) \div 3 + 1

\* the strategies of a 40-lap race: four of them, two_stop_aggressive with
\* stops at laps 13 and 26, one_stop_late held at lap 18
C18_Witness ==
    /\ IsDefaultStrategiesCall
    /\ call.args.total_race_laps = 40
    /\ Len(call.ret.strategies) = 4
    /\ call.ret.strategies[2].pit_stops[1].lap = 18
    /\ call.ret.strategies[3].name = "two_stop_aggressive"
    /\ call.ret.strategies[3].pit_stops[1].lap = 13
    /\ call.ret.strategies[3].pit_stops[2].lap = 26

\* ------------------------------------- claims on the ranking and the pit laps
\* the results of the call: one for simulate_race, the list for a comparison
ReturnedResults ==
    IF IsComparison THEN call.ret.results
    ELSE IF call.op = "simulate_race" /\ call.ret.raised = "none" THEN <<call.ret>>
    ELSE <<>>

\* C12: simulate_multiple_strategies returns the results in non-decreasing
\* total_time order, the k-th result has final_position k, and on every lap i
\* every result's gap_to_leader is its cumulative_time at lap i minus the
\* first-ranked result's cumulative_time at lap i (0 for the first-ranked).
C12_RankedWithGaps ==
    IsComparison =>
        LET results == call.ret.results
        IN  /\ Len(results) = Len(call.args.strategies)
            /\ \A k \in 1..Len(results) :
                   /\ results[k].final_position = k
                   /\ k > 1 => DblLeq(results[k - 1].total_time, results[k].total_time)
                   /\ \A i \in 1..Len(results[k].lap_results) :
                          results[k].lap_results[i].gap_to_leader
                              = DblSub(results[k].lap_results[i].cumulative_time,
                                      results[1].lap_results[i].cumulative_time)
            /\ \A i \in 1..Len(results[1].lap_results) :
                   results[1].lap_results[i].gap_to_leader = DblZero

\* a comparison of three strategies with three different total times, ranked
\* in another order than they were handed in, the last one behind at the end
\* and ahead of the leader on some lap before
C12_Witness ==
    /\ IsComparison
    /\ Len(call.ret.results) = 3
    /\ DblLess(call.ret.results[1].total_time, call.ret.results[2].total_time)
    /\ DblLess(call.ret.results[2].total_time, call.ret.results[3].total_time)
    /\ \E k \in 1..3 : call.ret.results[k].strategy # call.args.strategies[k]
    /\ DblLess(DblZero, call.ret.results[3].lap_results[SimRaceLaps].gap_to_leader)
    /\ \E i \in 1..SimRaceLaps :
           DblLess(call.ret.results[3].lap_results[i].gap_to_leader, DblZero)

\* the laps of one result follow the pit handling of simulate_race
PitHandling(result) ==
    LET strategy == result.strategy
        laps == result.lap_results
    IN  /\ Len(laps) = Simulator.total_race_laps
        /\ \A L \in 1..Len(laps) :
               LET stops == SelectSeq(strategy.pit_stops, LAMBDA ps : ps.lap = L)
                   before ==
                       IF L = 1
                       THEN [tire_compound |-> strategy.starting_compound,
                             tire_age |-> 0, cumulative_time |-> DblZero]
                       ELSE [tire_compound |-> laps[L - 1].tire_compound,
                             tire_age |-> laps[L - 1].tire_age,
                             cumulative_time |-> laps[L - 1].cumulative_time]
                   calculated ==
                       CalculateLapTime(Simulator, laps[L].tire_compound,
                                        laps[L].tire_age,
                                        Simulator.total_race_laps - (L - 1),
                                        InList(L, strategy.push_laps),
                                        strategy.fuel_saving_mode, laps[L].traffic)
               IN  /\ laps[L].lap_number = L
                   /\ laps[L].lap_time = calculated
                   /\ laps[L].tire_degradation
                          = CalculateTireDegradation(laps[L].tire_age,
                                CompoundCharacteristics(laps[L].tire_compound))
                   /\ IF stops # <<>>
                      THEN /\ laps[L].is_pit_lap
                           /\ laps[L].tire_age = 0
                           /\ laps[L].tire_degradation = DblZero
                           /\ laps[L].tire_compound = stops[1].new_compound
                           /\ laps[L].cumulative_time
                                  = DblAdd(DblAdd(before.cumulative_time,
                                                  stops[1].pit_loss_time),
                                           laps[L].lap_time)
                      ELSE /\ ~laps[L].is_pit_lap
                           /\ laps[L].tire_age = before.tire_age + 1
                           /\ laps[L].tire_compound = before.tire_compound
                           /\ laps[L].cumulative_time
                                  = DblAdd(before.cumulative_time, laps[L].lap_time)

\* C20: on every designated pit lap L the stop's pit_loss_time is added to
\* cumulative_time, the compound becomes the stop's new_compound and tire_age
\* is 0 for that lap's degradation and lap time, so the LapResult of L has
\* is_pit_lap true, tire_age 0 and the new compound; on every other lap the
\* compound is unchanged and tire_age is the previous lap's plus 1 (1 on the
\* first lap).
C20_PitLapHandling ==
    \A k \in 1..Len(ReturnedResults) : PitHandling(ReturnedResults[k])

\* a simulate_race call of the one-stop strategy has returned: soft on lap 1,
\* the stop to medium on lap 2 at tire age 0, tire age 1 on lap 3
C20_Witness ==
    /\ call.op = "simulate_race"
    /\ call.args.strategy = OneStop
    /\ call.ret.raised = "none"
    /\ call.ret.lap_results[1].tire_compound = "soft"
    /\ call.ret.lap_results[1].tire_age = 1
    /\ call.ret.lap_results[2].is_pit_lap
    /\ call.ret.lap_results[2].tire_age = 0
    /\ call.ret.lap_results[2].tire_compound = "medium"
    /\ call.ret.lap_results[3].tire_age = 1
    /\ call.ret.lap_results[2].cumulative_time
           = DblAdd(DblAdd(call.ret.lap_results[1].cumulative_time, DblFromInt(45)),
                    call.ret.lap_results[2].lap_time)

\* ------------------------------------------ claims on stints and candidates
\* C17: in the samples of one vehicle, between two consecutive samples of the
\* same stint tire_age increases by exactly 1, stint_number never decreases,
\* and stint_number changes, by exactly 1, only on a sample whose tire_age
\* is 1.
C17_StintBookkeeping ==
    IsLapDegradationCall =>
        LET df == call.ret.df
        IN  \A j \in 1..Len(df) :
                LET before == IF j = 1 THEN [stint_number |-> 1, tire_age |-> 0]
                              ELSE [stint_number |-> df[j - 1].stint_number,
                                    tire_age |-> df[j - 1].tire_age]
                IN  /\ df[j].stint_number >= before.stint_number
                    /\ df[j].stint_number = before.stint_number
                           => df[j].tire_age = before.tire_age + 1
                    /\ df[j].stint_number # before.stint_number
                           => /\ df[j].stint_number = before.stint_number + 1
                              /\ df[j].tire_age = 1

\* samples of two stints: a pit lap that was accepted opens the second stint
\* after at least two laps of the first, and the stint goes on after it
C17_Witness ==
    /\ IsLapDegradationCall
    /\ \E j \in 3..(Len(call.ret.df) - 1) :
           /\ call.ret.df[j - 1].stint_number = 1
           /\ call.ret.df[j - 1].tire_age = j - 1
           /\ call.ret.df[j].stint_number = 2
           /\ call.ret.df[j].is_pit_lap
           /\ call.ret.df[j].tire_age = 1
           /\ call.ret.df[j + 1].stint_number = 2
           /\ call.ret.df[j + 1].tire_age = 2

\* the number of evaluated scenarios of the call with pit lap P
TimesEvaluated(P) ==
    Cardinality({i \in 1..Len(call.ret.evaluated) : call.ret.evaluated[i].pit_lap = P})

\* C19: the scenarios evaluated by one calculate_pit_window call are exactly
\* one pit scenario for each lap P with current_lap + 1 <= P <= current_lap +
\* min(15, remaining_laps), plus one no-pit scenario (pit_lap = 0) if and only
\* if remaining_laps <= 8 and current_tire_age < 12.
C19_CandidateSet ==
    IsPitWindowCall =>
        LET current_lap == call.args.current_lap
            remaining_laps == call.args.total_race_laps - current_lap
            last == current_lap + Min(15, remaining_laps)
        IN  /\ \A P \in 1..(MaxLap + 16) :
                   TimesEvaluated(P) = IF current_lap + 1 <= P /\ P <= last THEN 1 ELSE 0
            /\ TimesEvaluated(0)
                   = IF remaining_laps <= 8 /\ call.args.current_tire_age < 12
                     THEN 1 ELSE 0
            /\ \A i \in 1..Len(call.ret.evaluated) :
                   call.ret.evaluated[i].pit_lap \in 0..(MaxLap + 16)

\* a call with more than 15 laps remaining: the 15 laps of the lookahead are
\* evaluated and the last laps of the race are not
C19_Witness ==
    /\ IsPitWindowCall
    /\ call.args.total_race_laps - call.args.current_lap > 15
    /\ Len(call.ret.evaluated) = 15
    /\ TimesEvaluated(call.args.current_lap + 15) = 1
    /\ TimesEvaluated(call.args.total_race_laps) = 0

\* ------------------------------------------- the tire-degradation endpoint
\* detect_pit_stops_from_lap_times(lapt) seen from one vehicle: the dict has the
\* vehicle's key only when at least one lap was detected
PitStopsFromLaps(times, lap_nums) ==
    LET pit_laps == DetectPitStops(times, lap_nums)
    IN  [has_key |-> pit_laps # <<>>, laps |-> pit_laps]

\* pit_stops = {**pit_stops_from_laps, **pit_stops_from_data}: for a key of
\* both dicts the value of the second one is kept
CombinePitStops(pit_stops_from_laps, pit_stops_from_data) ==
    IF pit_stops_from_data.has_key THEN pit_stops_from_data ELSE pit_stops_from_laps

EndpointError == "HTTPException 500"

\* degradation_df.to_dict('records')[:100]: the response carries the first 100
\* samples
ResponseRowLimit == 100
FirstRows(rows, n) == SubSeq(rows, 1, Min(n, Len(rows)))

\* get_tire_degradation_analysis for the lap times of one vehicle and the
\* pit-stop dict read from the race-results data, which holds a list for every
\* car of the file that stopped: the vehicle's own (pit_stops_from_data) and
\* those of the other cars (other_cars). The response has the combined pit
\* stops, their number summed over every key of the merged dict, the number of
\* samples (total_laps_analyzed, line 63), the first 100 of them
\* (degradation_data, line 98) and the fitted rate. The HTTPException(404)
\* raised inside the try block is an Exception and leaves as a 500. The race
\* classification and the sample predictions of the response are left out.
GetTireDegradationAnalysis(a) ==
    LET pit_stops == CombinePitStops(PitStopsFromLaps(a.times, a.lap_nums),
                                     a.pit_stops_from_data)
        degradation_df_ ==
            LapDegradation(a.times, a.lap_nums,
                [is_none |-> FALSE,
                 laps |-> IF pit_stops.has_key THEN pit_stops.laps ELSE <<>>])
    IN  IF a.times = <<>> \/ degradation_df_ = <<>>
        THEN [raised |-> EndpointError]
        ELSE [raised |-> "none",
              detected_pit_stops |-> pit_stops,
              total_pit_stops |->
                  (IF pit_stops.has_key THEN Len(pit_stops.laps) ELSE 0)
                  + SeqSum([i \in 1..Len(a.other_cars) |-> Len(a.other_cars[i])]),
              vehicles_with_pit_stops |->
                  (IF pit_stops.has_key THEN 1 ELSE 0) + Len(a.other_cars),
              avg_degradation_rate_per_lap |-> DegradationRate(degradation_df_),
              total_laps_analyzed |-> Len(degradation_df_),
              degradation_data |-> FirstRows(degradation_df_, ResponseRowLimit)]

\* the race-results data names no pit stop of the vehicle, or names some laps
PitStopsFromData(n) ==
    {[has_key |-> FALSE, laps |-> <<>>]}
    \cup {[has_key |-> TRUE, laps |-> l] :
            l \in {<<p>> : p \in 1..(n + 1)}
                  \cup {<<p, q>> : p \in 1..(n + 1), q \in 2..(n + 1)}}

\* the pit-lap lists the race-results data has for other cars: none, or one
\* car that stopped on lap 3
OtherCarsPitStops == {<<>>, << <<3>> >>}

\* a race of more laps than the response carries samples, at an even pace
MaxAnalysisLaps == 104
LongRaceTimes == [k \in 1..MaxAnalysisLaps |-> 96]

AnalysisArgs(n) ==
    { [times |-> t, lap_nums |-> SequentialLaps(Len(t)),
       pit_stops_from_data |-> ps, other_cars |-> oc] :
        t \in SeqsUpTo(LapTimeValues, n),
        ps \in {x \in PitStopsFromData(n) :
                   Len(x.laps) = 2 => x.laps[1] < x.laps[2]},
        oc \in OtherCarsPitStops }
    \cup { [times |-> LongRaceTimes, lap_nums |-> SequentialLaps(MaxAnalysisLaps),
            pit_stops_from_data |-> [has_key |-> FALSE, laps |-> <<>>],
            other_cars |-> oc] : oc \in OtherCarsPitStops }

CallGetTireDegradationAnalysis ==
    /\ call = NoCall
    /\ \E a \in AnalysisArgs(MaxLapTimes) :
           call' = [op |-> "get_tire_degradation_analysis", args |-> a,
                    ret |-> GetTireDegradationAnalysis(a)]
    /\ UNCHANGED <<model, degradation_df, rng, sims, sim_log>>

NextAnalytics == CallGetTireDegradationAnalysis \/ Return

SpecAnalytics == InitPit /\ [][NextAnalytics]_vars

IsAnalysisCall == call.op = "get_tire_degradation_analysis"

\* C21: when the race-results data supplies a pit-lap list for the vehicle, the
\* pit laps used for the vehicle's tire-age bookkeeping are the union of that
\* list and the laps detected from the lap times: no detected lap is dropped.
C21_DetectedLapsKept ==
    (IsAnalysisCall /\ call.args.pit_stops_from_data.has_key /\ call.ret.raised = "none") =>
        LET used == call.ret.detected_pit_stops.laps
            detected == DetectPitStops(call.args.times, call.args.lap_nums)
            truth == call.args.pit_stops_from_data.laps
        IN  {used[i] : i \in 1..Len(used)}
                = {truth[i] : i \in 1..Len(truth)} \cup {detected[i] : i \in 1..Len(detected)}

\* --------------------------------------------------- the stint-length scan
\* lap series of one vehicle whose lap time grows by one second per lap, a
\* flat one and one that grows faster and faster; pit stops are auto-detected
StintLapTimes ==
    {[k \in 1..6 |-> t + k - 1] : t \in {96, 97, 98, 99, 100, 101}}
    \cup {<<100, 100, 100, 100, 100, 100>>, <<100, 100, 101, 102, 104, 106>>}

StintLapDegradationArgs ==
    {[times |-> t, lap_nums |-> SequentialLaps(Len(t)),
      pit_stops |-> [is_none |-> TRUE, laps |-> <<>>]] : t \in StintLapTimes}

StintCalculateLapDegradation == CalcLapDegradation(StintLapDegradationArgs)

NextStint ==
    \/ StintCalculateLapDegradation
    \/ CallFitDegradationModel
    \/ CallCalculateOptimalStintLength
    \/ Return

SpecStint == InitPit /\ [][NextStint]_vars

IsStintLengthCall == call.op = "calculate_optimal_stint_length" /\ call.ret.raised = "none"

\* the prediction the call saw at tire age a is above its threshold
ExceedsThreshold(a) ==
    PredictionExceeds(model, a, call.args.max_degradation_threshold, call.ret.above)

\* C22: calculate_optimal_stint_length on a fitted model examines the tire ages
\* current_age + 1, current_age + 2, ... in increasing order, up to and
\* including current_age + 50 and none beyond; if a is the first of these ages
\* whose predicted degradation exceeds the threshold, the scan stops there,
\* optimal_tire_age_for_pit is a - 1 and remaining_laps_on_tires is
\* a - 1 - current_age.
C22_ScanTo50 ==
    IsStintLengthCall =>
        LET current_age == call.args.current_tire_age
            scanned == call.ret.scanned
            first == {a \in (current_age + 1)..(current_age + 50) :
                         /\ ExceedsThreshold(a)
                         /\ \A b \in (current_age + 1)..(a - 1) : ~ExceedsThreshold(b)}
        IN  /\ Len(scanned) <= 50
            /\ \A i \in 1..Len(scanned) : scanned[i] = current_age + i
            /\ first = {} => Len(scanned) = 50
            /\ \A a \in first :
                   /\ Len(scanned) = a - current_age
                   /\ call.ret.optimal_tire_age_for_pit = a - 1
                   /\ call.ret.remaining_laps_on_tires = a - 1 - current_age

\* ------------------------------------- the optimizer on rates of either sign
SignedPitArgs ==
    { [current_lap |-> c, total_race_laps |-> t, current_tire_age |-> g,
       degradation_rate |-> r, baseline_laptime |-> b] :
        c \in PitCurrentLaps, t \in 0..MaxLap, g \in PitTireAges,
        r \in SignedRates, b \in Baselines }

CalculatePitWindowSigned ==
    /\ call = NoCall
    /\ \E a \in {x \in SignedPitArgs : x.current_lap <= x.total_race_laps} :
           call' = [op |-> "calculate_pit_window", args |-> a, ret |-> PitWindow(a)]
    /\ UNCHANGED <<model, degradation_df, rng, sims, sim_log>>

NextPitSigned == CalculatePitWindowSigned \/ Return

SpecPitSigned == InitPit /\ [][NextPitSigned]_vars

\* C23: whenever calculate_pit_window evaluates the no-pit scenario, that
\* scenario's net_advantage is minus its total_time_loss and is at most 0, for
\* every accepted input (positive baseline, degradation rate of either sign).
C23_NoPitNeverGains ==
    IsPitWindowCall =>
        \A i \in 1..Len(call.ret.evaluated) :
            call.ret.evaluated[i].pit_lap = 0 =>
                /\ call.ret.evaluated[i].net_advantage
                       = DblNeg(call.ret.evaluated[i].total_time_loss)
                /\ DblLeq(call.ret.evaluated[i].net_advantage, DblZero)

\* C24: the recommendation returned by calculate_pit_window is determined by
\* the optimal scenario: NO_PIT_RECOMMENDED when its pit_lap is 0, and
\* laps_until_pit is then reported as 0; otherwise laps_until_pit is
\* pit_lap - current_lap and the label is PIT_NOW when that is at most 1,
\* PIT_IN_<n>_LAPS when it is 2 or 3, PIT_SOON when it is 4 or 5 and
\* PIT_WINDOW_LAP_<pit_lap> when it is 6 or more.
C24_RecommendationBuckets ==
    PitWindowReturned =>
        LET pit_lap == call.ret.optimal_pit_lap
            n == pit_lap - call.args.current_lap
        IN  /\ pit_lap = call.ret.evaluated[1].pit_lap
            /\ IF pit_lap = 0
               THEN /\ call.ret.recommendation = <<"NO_PIT_RECOMMENDED">>
                    /\ call.ret.laps_until_pit = 0
               ELSE /\ call.ret.laps_until_pit = n
                    /\ n <= 1 => call.ret.recommendation = <<"PIT_NOW">>
                    /\ n \in {2, 3} => call.ret.recommendation = <<"PIT_IN_", n, "_LAPS">>
                    /\ n \in {4, 5} => call.ret.recommendation = <<"PIT_SOON">>
                    /\ n >= 6 => call.ret.recommendation = <<"PIT_WINDOW_LAP_", pit_lap>>

\* a call made after lap 0 whose optimal pit stop is six laps ahead: the label
\* names the pit lap, not the distance
C24_Witness ==
    /\ PitWindowReturned
    /\ call.args.current_lap > 0
    /\ call.ret.optimal_pit_lap = call.args.current_lap + 6
    /\ call.ret.laps_until_pit = 6
    /\ call.ret.recommendation = <<"PIT_WINDOW_LAP_", call.args.current_lap + 6>>

IsRaceToFinishReturn == call.op = "simulate_race_to_finish" /\ call.ret.raised = "none"

\* the simulated laps of the call on which the loop takes a pit stop
StopsTaken ==
    {lap \in (call.args.current_lap + 1)..call.args.total_race_laps :
        \E i \in 1..Len(call.args.pit_laps) : call.args.pit_laps[i] = lap}

\* C25: for any pit_laps list (laps at or before current_lap, laps after
\* total_race_laps and repeated laps included) simulate_race_to_finish reports
\* as total_pit_stops the number of simulated laps on which a stop was taken,
\* and total_race_time is the sum of the returned lap_times plus the pit loss
\* times that number.
C25_PitStopsTaken ==
    IsRaceToFinishReturn =>
        /\ call.ret.total_pit_stops = Cardinality(StopsTaken)
        /\ call.ret.total_race_time
               = SeqSum(call.ret.lap_times) + typical_pit_time * Cardinality(StopsTaken)

\* the lap numbers the call detects as pit laps
DetectedByCall == DetectPitStops(call.args.times, call.args.lap_nums)

\* C26 as stated: when calculate_lap_degradation detects the pit laps itself
\* (no pit-stop list handed in), no detected pit lap is an accepted lap; so no
\* sample has is_pit_lap true, stint_number is 1 on every sample and tire_age
\* equals cumulative_laps on every sample.
C26_AutoDetectNeverResets ==
    (IsLapDegradationCall /\ call.args.pit_stops.is_none) =>
        \A i \in 1..Len(call.ret.df) :
            /\ ~InList(call.ret.df[i].lap_number, DetectedByCall)
            /\ ~call.ret.df[i].is_pit_lap
            /\ call.ret.df[i].stint_number = 1
            /\ call.ret.df[i].cumulative_laps = i
            /\ call.ret.df[i].tire_age = call.ret.df[i].cumulative_laps

\* no sample of the call carries the lap number of a detected pit lap
NoSampleSharesDetectedNumber ==
    \A i \in 1..Len(call.ret.df) : ~InList(call.ret.df[i].lap_number, DetectedByCall)

DistinctLapNums(lap_nums) ==
    \A i, j \in 1..Len(lap_nums) : i # j => lap_nums[i] # lap_nums[j]

\* C26 amended: when calculate_lap_degradation detects the pit laps itself, no
\* accepted lap is longer than 130 s, so no row detected as a pit lap is
\* accepted; a sample has is_pit_lap true exactly when its lap number is the
\* lap number of a detected row, which does not happen when the vehicle's rows
\* carry distinct lap numbers; and when no sample shares its lap number with a
\* detected row, stint_number is 1 on every sample and tire_age equals
\* cumulative_laps on every sample.
C26_AutoDetectResetsOnSharedNumber ==
    (IsLapDegradationCall /\ call.args.pit_stops.is_none) =>
        /\ \A i \in 1..Len(call.ret.df) :
               /\ call.ret.df[i].lap_time <= pit_time_threshold
               /\ call.ret.df[i].cumulative_laps = i
               /\ call.ret.df[i].is_pit_lap
                      <=> InList(call.ret.df[i].lap_number, DetectedByCall)
        /\ DistinctLapNums(call.args.lap_nums) => NoSampleSharesDetectedNumber
        /\ NoSampleSharesDetectedNumber =>
               \A i \in 1..Len(call.ret.df) :
                   /\ ~call.ret.df[i].is_pit_lap
                   /\ call.ret.df[i].stint_number = 1
                   /\ call.ret.df[i].tire_age = call.ret.df[i].cumulative_laps

\* an auto-detecting call on rows with distinct lap numbers in which a pit lap
\* is detected in the middle of the series and samples are produced on both
\* sides of it
C26_Witness ==
    /\ IsLapDegradationCall
    /\ call.args.pit_stops.is_none
    /\ DistinctLapNums(call.args.lap_nums)
    /\ \E p \in 1..Len(DetectedByCall) :
           /\ call.ret.df # <<>>
           /\ call.ret.df[1].lap_number < DetectedByCall[p]
           /\ call.ret.df[Len(call.ret.df)].lap_number > DetectedByCall[p]
           /\ call.ret.df[Len(call.ret.df)].tire_age = Len(call.ret.df)

\* the pit laps of the pit candidates of the call whose net_advantage is the
\* maximum over all evaluated scenarios
BestPitLaps ==
    {call.ret.evaluated[i].pit_lap : i \in
        {j \in 1..Len(call.ret.evaluated) :
            /\ call.ret.evaluated[j].pit_lap > 0
            /\ BetterThan(call.ret.evaluated, call.ret.evaluated[j].net_advantage) = 0}}

\* C27: when several evaluated scenarios share the maximal net_advantage, the
\* optimal one is the pit candidate with the smallest pit lap among them; the
\* no-pit scenario is optimal only when its net_advantage is strictly greater
\* than that of every pit candidate.
C27_TiesToEarliestPit ==
    PitWindowReturned =>
        /\ BestPitLaps # {} =>
               /\ call.ret.optimal_pit_lap \in BestPitLaps
               /\ \A p \in BestPitLaps : call.ret.optimal_pit_lap <= p
        /\ call.ret.optimal_pit_lap = 0 =>
               \A i \in 1..Len(call.ret.evaluated) :
                   call.ret.evaluated[i].pit_lap > 0 =>
                       DblLess(call.ret.evaluated[i].net_advantage, call.ret.net_advantage)

\* a call in which several pit candidates tie for the best net_advantage and
\* the earliest of them is reported
C27_Witness ==
    /\ PitWindowReturned
    /\ Cardinality(BestPitLaps) >= 3
    /\ call.ret.optimal_pit_lap = call.args.current_lap + 1
    /\ call.args.current_lap + 3 \in BestPitLaps

\* ------------------------------- the undercut analysis at any lap of the race
UndercutLaps == {1, 15}

UndercutAnyLapArgs ==
    { [current_lap |-> l, own_tire_age |-> o, competitor_tire_age |-> c,
       gap_to_competitor |-> g, degradation_rate |-> r, baseline_laptime |-> b] :
        l \in UndercutLaps, o \in 0..MaxUndercutAge, c \in 0..MaxUndercutAge,
        g \in Gaps, r \in Rates, b \in Baselines }

CallUndercutAtAnyLap ==
    /\ call = NoCall
    /\ \E a \in UndercutAnyLapArgs :
           call' = [op |-> "calculate_undercut_opportunity", args |-> a,
                    ret |-> UndercutOpportunity(a)]
    /\ UNCHANGED <<model, degradation_df, rng, sims, sim_log>>

NextUndercutLaps == CallUndercutAtAnyLap \/ Return

SpecUndercutLaps == InitPit /\ [][NextUndercutLaps]_vars

\* the five fields of the dict calculate_undercut_opportunity returns
UndercutResult(ret) ==
    <<ret.undercut_viable, ret.time_gain_potential, ret.gap_required,
      ret.advantage_margin, ret.recommendation>>

\* C28: the result of calculate_undercut_opportunity (all five fields) does not
\* depend on own_tire_age or on current_lap: a call that agrees with this one on
\* competitor_tire_age, gap_to_competitor, degradation_rate and
\* baseline_laptime returns the same result.
C28_OwnAgeAndLapIgnored ==
    IsUndercutCall =>
        \A b \in UndercutAnyLapArgs :
            (/\ b.competitor_tire_age = call.args.competitor_tire_age
             /\ b.gap_to_competitor = call.args.gap_to_competitor
             /\ b.degradation_rate = call.args.degradation_rate
             /\ b.baseline_laptime = call.args.baseline_laptime)
                => UndercutResult(UndercutOpportunity(b)) = UndercutResult(call.ret)

\* a call at lap 1 on worn own tires that recommends the undercut, as the call
\* at lap 15 on new tires does
C28_Witness ==
    /\ IsUndercutCall
    /\ call.args.current_lap = 1
    /\ call.args.own_tire_age = MaxUndercutAge
    /\ call.ret.recommendation = "UNDERCUT_NOW"
    /\ UndercutResult(UndercutOpportunity(
           [call.args EXCEPT !.current_lap = 15, !.own_tire_age = 0]))
           = UndercutResult(call.ret)

\* ------------------------------------ simulate_race on any list of pit stops
\* PitStop(lap, new_compound, pit_loss_time)
PitStopWithLoss(lap, new_compound, pit_loss_time) ==
    [lap |-> lap, new_compound |-> new_compound, pit_loss_time |-> pit_loss_time]

\* pit stops on the laps of the race, on lap 0 and on the lap after the last
AnyPitStops ==
    {PitStopWithLoss(lap, "hard", DblFromInt(30)) : lap \in 0..(SimRaceLaps + 1)}
    \cup {PitStopWithLoss(lap, "soft", DblFromInt(45)) : lap \in 0..(SimRaceLaps + 1)}

\* strategies on medium tires with up to two pit stops, in any order, also on
\* the same lap
AnyStopStrategies ==
    {[name |-> "any_stops", starting_compound |-> "medium", pit_stops |-> stops,
      fuel_saving_mode |-> FALSE, push_laps |-> <<>>] :
        stops \in {<<>>} \cup {<<p>> : p \in AnyPitStops}
                  \cup {<<p, q>> : p \in AnyPitStops, q \in AnyPitStops}}

CallSimulateRaceAnyStops ==
    /\ call = NoCall
    /\ \E strategy \in AnyStopStrategies, seed \in SeedArgs :
           /\ DrawsLeft(rng, seed, Simulator.total_race_laps)
           /\ \E run \in {SimulateRace(Simulator, strategy, seed, rng)} :
               /\ call' = [op |-> "simulate_race",
                           args |-> [strategy |-> strategy, random_seed |-> seed],
                           ret |-> run.ret]
               /\ rng' = run.rng
    /\ UNCHANGED <<model, degradation_df, sims, sim_log>>

NextSimStops == CallSimulateRaceAnyStops \/ Return

SpecSimStops == InitSim /\ [][NextSimStops]_vars

IsRaceReturned == call.op = "simulate_race" /\ call.ret.raised = "none"

\* the pit_loss_time charged on lap L of the returned race: that of the first
\* stop the strategy lists for L, nothing on a lap without a stop
PitLossCharged(L) ==
    LET stops == SelectSeq(call.args.strategy.pit_stops, LAMBDA ps : ps.lap = L)
    IN  IF stops = <<>> THEN DblZero ELSE stops[1].pit_loss_time

RECURSIVE RunningTotal(_, _)
\* cumulative_time after lap L of the returned race, accumulated as the lap
\* loop does from 0.0: on each lap the pit loss charged, then the lap time
RunningTotal(laps, L) ==
    IF L = 0 THEN DblZero
    ELSE DblAdd(DblAdd(RunningTotal(laps, L - 1), PitLossCharged(L)), laps[L].lap_time)

\* C29: for every strategy (pit stops outside laps 1..total_race_laps and
\* several pit stops on one lap included) a result returned by simulate_race
\* has exactly total_race_laps lap results numbered 1..total_race_laps in
\* order, the laps of tire_usage_summary sum to total_race_laps,
\* total_pit_stops is the number of lap results with is_pit_lap true, and
\* total_time is the last lap's cumulative_time, which is the sum of all lap
\* times plus the pit_loss_time of each pit lap taken.
C29_RaceResultShape ==
    IsRaceReturned =>
        LET laps == call.ret.lap_results
            n == Simulator.total_race_laps
            pit_laps == {L \in 1..Len(laps) : laps[L].is_pit_lap}
        IN  /\ Len(laps) = n
            /\ \A L \in 1..Len(laps) : laps[L].lap_number = L
            /\ SetSum(call.ret.tire_usage_summary) = n
            /\ call.ret.total_pit_stops = Cardinality(pit_laps)
            /\ pit_laps = {L \in 1..n : DblLess(DblZero, PitLossCharged(L))}
            /\ call.ret.total_time = laps[Len(laps)].cumulative_time
            /\ call.ret.total_time = RunningTotal(laps, Len(laps))

\* a returned race whose strategy lists two different stops for lap 2 and
\* nothing else: one pit stop is taken, with the first stop's loss and compound
C29_Witness ==
    /\ IsRaceReturned
    /\ Len(call.args.strategy.pit_stops) = 2
    /\ call.args.strategy.pit_stops[1].lap = 2
    /\ call.args.strategy.pit_stops[2].lap = 2
    /\ call.args.strategy.pit_stops[1].pit_loss_time = DblFromInt(30)
    /\ call.args.strategy.pit_stops[2].pit_loss_time = DblFromInt(45)
    /\ call.args.strategy.pit_stops[1].new_compound = "hard"
    /\ call.args.strategy.pit_stops[2].new_compound = "soft"
    /\ call.ret.total_pit_stops = 1
    /\ call.ret.lap_results[2].tire_compound = "hard"
    /\ call.ret.tire_usage_summary["hard"] = 2

\* a returned race whose strategy lists a stop on lap 0 and one after the last
\* lap: no pit stop is taken
C29_WitnessOutOfRange ==
    /\ IsRaceReturned
    /\ Len(call.args.strategy.pit_stops) = 2
    /\ call.args.strategy.pit_stops[1].lap = 0
    /\ call.args.strategy.pit_stops[2].lap = Simulator.total_race_laps + 1
    /\ call.ret.total_pit_stops = 0

\* the number of pit stops simulate_race takes when the strategy is run over
\* total_race_laps laps (seed 42)
PitStopsTakenBy(strategy, total_race_laps) ==
    SimulateRace([Simulator EXCEPT !.total_race_laps = total_race_laps],
                 strategy, <<42>>, rng).ret.total_pit_stops

\* C30: for every total_race_laps >= 1, every pit stop of every strategy of
\* generate_default_strategies is on a lap within 1..total_race_laps and the
\* stops of one strategy are on distinct laps, so simulating the strategy takes
\* exactly as many pit stops as it lists.
C30_DefaultStopsWithinRace ==
    IsDefaultStrategiesCall =>
        LET n == call.args.total_race_laps
        IN  \A s \in 1..Len(call.ret.strategies) :
                LET stops == call.ret.strategies[s].pit_stops
                IN  /\ \A i \in 1..Len(stops) : stops[i].lap \in 1..n
                    /\ \A i, j \in 1..Len(stops) : i # j => stops[i].lap # stops[j].lap
                    /\ PitStopsTakenBy(call.ret.strategies[s], n) = Len(stops)

\* C30 as the code has it: for every total_race_laps >= 2 every pit stop of
\* every default strategy is on a lap within 1..total_race_laps, the stops of
\* one strategy are on distinct laps and simulating the strategy takes as many
\* pit stops as it lists; for total_race_laps = 1 every listed stop is on lap
\* 0 and simulating the strategy takes no pit stop.
C30_DefaultStopsWithinRaceFrom2 ==
    IsDefaultStrategiesCall =>
        LET n == call.args.total_race_laps
        IN  \A s \in 1..Len(call.ret.strategies) :
                LET stops == call.ret.strategies[s].pit_stops
                IN  IF n >= 2
                    THEN /\ \A i \in 1..Len(stops) : stops[i].lap \in 1..n
                         /\ \A i, j \in 1..Len(stops) :
                                i # j => stops[i].lap # stops[j].lap
                         /\ PitStopsTakenBy(call.ret.strategies[s], n) = Len(stops)
                    ELSE /\ \A i \in 1..Len(stops) : stops[i].lap = 0
                         /\ PitStopsTakenBy(call.ret.strategies[s], n) = 0

\* the default strategies of a three-lap race: the early stop is on lap 1 and
\* is taken when the strategy is simulated
C30_Witness ==
    /\ IsDefaultStrategiesCall
    /\ call.args.total_race_laps = 3
    /\ call.ret.strategies[2].name = "one_stop_early"
    /\ call.ret.strategies[2].pit_stops[1].lap = 1
    /\ PitStopsTakenBy(call.ret.strategies[2], 3) = 1
====
